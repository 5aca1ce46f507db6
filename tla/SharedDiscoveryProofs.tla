----------------------- MODULE SharedDiscoveryProofs -----------------------
(***************************************************************************)
(* Proofs about the corpus authority, the shared discovery pools, the      *)
(* recommendation that reads them, its ranker and the page it makes, for   *)
(* any writers, requests, channels, repositories, artifacts, candidates    *)
(* and bounds.                                                             *)
(*                                                                         *)
(* AuthorityInv: every operation that may still change the collection has  *)
(* its token in the record, so a readable record, which holds none, means  *)
(* rest.  DiscoveryInv: whatever was read under a revision is the          *)
(* collection of now as long as the record is readable under that          *)
(* revision; a step of the authority leaves readable records alone, makes  *)
(* them unreadable, or gives them a revision nobody has seen               *)
(* (AuthorityStep), so it never disturbs that.                             *)
(*                                                                         *)
(* PassInv: what one recommendation has read agrees, because its own       *)
(* reads all go through one memo (MemoKept), because a shared pool is used *)
(* only while the revision stands (FreshUnder), and because an inline      *)
(* proof, which keeps no memo, drops what it has observed to differ.       *)
(*                                                                         *)
(* RankingInv: what a ranker that goes on with its loading has passed, and *)
(* whose request an open capture is.                                       *)
(*                                                                         *)
(* DivInv: the counts are those of the candidates chosen, and no quota is  *)
(* behind the search: one that fits begins with what is chosen, or comes   *)
(* later than what has been tried.                                         *)
(*                                                                         *)
(* AnchorInv: what stands of a promise is in the FIFO.  PageInv: what the  *)
(* walk has met is in the tail or waits for want of room, and a stride     *)
(* that shares no divisor with the pool's size meets all of it             *)
(* (StopsDiffer, StopsAll).                                                *)
(***************************************************************************)
EXTENDS SharedDiscovery, RecommendationPass, HeavyRanking, Diversity, FeedAssembly, TLAPS, FiniteSetTheorems, SequenceTheorems

AuthorityTyped ==
  /\ epoch \in Nat /\ minted \in Nat /\ corpus \in Nat
  /\ auth \in Records
  /\ writer \in [Writers -> [pc : {"idle", "operate", "finish"}, token : Nat]]
  /\ limbo \subseteq Nat

Working(w) == writer[w].pc # "idle"

AuthorityInv ==
  /\ AuthorityTyped
  /\ auth.epoch <= epoch /\ auth.revision <= minted
  /\ Readable => auth.tokens = {}
  /\ \A t \in limbo : t <= minted /\ (Writable => t \in auth.tokens)
  /\ \A w \in Writers : Working(w) =>
       /\ writer[w].token <= minted /\ writer[w].token \notin limbo
       /\ Writable => writer[w].token \in auth.tokens
  /\ \A v, w \in Writers :
       Working(v) /\ Working(w) /\ writer[v].token = writer[w].token => v = w

(* A readable record holds no token, so nothing is outstanding. *)
LEMMA InvQuiet == AuthorityInv => ReadyMeansQuiet
BY DEF AuthorityInv, ReadyMeansQuiet, Readable, Writable, Working, At

LEMMA AuthorityInitially == AuthorityInit => AuthorityInv
<1>. SUFFICES ASSUME AuthorityInit PROVE AuthorityInv
  OBVIOUS
<1>1. AuthorityTyped
  <2>1. auth \in Records
    BY DEF AuthorityInit, Records
  <2>2. writer \in [Writers -> [pc : {"idle", "operate", "finish"}, token : Nat]]
    BY DEF AuthorityInit, Idle
  <2>. QED BY <2>1, <2>2 DEF AuthorityInit, AuthorityTyped
<1>2. \A w \in Writers : ~Working(w)
  BY DEF AuthorityInit, Working, Idle
<1>3. ~Readable /\ auth.epoch <= epoch /\ auth.revision <= minted /\ limbo = {}
  BY DEF AuthorityInit, Readable, Legible
<1>. QED BY <1>1, <1>2, <1>3 DEF AuthorityInv

----------------------------------------------------------------------------
(* Each action of the authority keeps AuthorityInv. *)

USE DEF AuthorityInv, AuthorityTyped, Readable, Writable, Legible, Working, At, Records

LEMMA BeginInv ==
  ASSUME AuthorityInv, NEW w \in Writers, Begin(w)
  PROVE  AuthorityInv'
<1>1. minted' = minted + 1 /\ UNCHANGED <<epoch, corpus, limbo>>
  BY DEF Begin, Mint
<1>2. /\ auth'.epoch = auth.epoch /\ auth'.state = "DIRTY"
      /\ auth'.revision = minted' /\ auth'.tokens = auth.tokens \cup {minted'}
      /\ auth' \in Records
  <2>1. auth' = [auth EXCEPT !.tokens = @ \cup {minted'}, !.state = "DIRTY",
                            !.revision = minted']
    BY DEF Begin
  <2>2. auth'.epoch = auth.epoch
    BY <2>1
  <2>3. auth'.state = "DIRTY"
    BY <2>1
  <2>4. auth'.revision = minted'
    BY <2>1
  <2>5. auth'.tokens = auth.tokens \cup {minted'}
    BY <2>1
  <2>6. auth' \in Records
    <3>1. auth.tokens \cup {minted'} \in SUBSET Nat /\ minted' \in Nat
      BY <1>1
    <3>. QED BY <2>1, <3>1
  <2>. QED BY <2>2, <2>3, <2>4, <2>5, <2>6
<1>3. CASE UNCHANGED writer
  BY <1>1, <1>2, <1>3 DEF Begin
<1>4. CASE writer' = [writer EXCEPT ![w] = [pc |-> "operate", token |-> minted']]
  <2>1. writer'[w].token = minted' /\ \A v \in Writers \ {w} : writer'[v] = writer[v]
    BY <1>4
  <2>2. AuthorityTyped'
    BY <1>1, <1>2, <1>4
  <2>3. \A v \in Writers : Working(v)' =>
          /\ writer'[v].token <= minted' /\ writer'[v].token \notin limbo'
          /\ Writable' => writer'[v].token \in auth'.tokens
    BY <1>1, <1>2, <2>1 DEF Begin
  <2>4. \A v, x \in Writers :
          Working(v)' /\ Working(x)' /\ writer'[v].token = writer'[x].token => v = x
    BY <1>1, <2>1
  <2>5. \A t \in limbo' : t <= minted' /\ (Writable' => t \in auth'.tokens)
    BY <1>1, <1>2 DEF Begin
  <2>. QED BY <1>1, <1>2, <2>2, <2>3, <2>4, <2>5
<1>. QED BY <1>3, <1>4 DEF Begin

LEMMA CompleteInv ==
  ASSUME AuthorityInv, NEW w \in Writers, Complete(w)
  PROVE  AuthorityInv'
BY DEF Complete, Move

LEMMA UnprovenInv ==
  ASSUME AuthorityInv, NEW w \in Writers, Unproven(w)
  PROVE  AuthorityInv'
BY DEF Unproven, Retire, Idle

LEMMA FinishInv ==
  ASSUME AuthorityInv, NEW w \in Writers, Finish(w)
  PROVE  AuthorityInv'
<1>. DEFINE token == writer[w].token
<1>1. UNCHANGED <<epoch, corpus, limbo>> /\ writer' = [writer EXCEPT ![w] = Idle]
  BY DEF Finish, Retire
<1>2. /\ writer' \in [Writers -> [pc : {"idle", "operate", "finish"}, token : Nat]]
      /\ ~Working(w)' /\ \A v \in Writers \ {w} : writer'[v] = writer[v]
  BY <1>1 DEF Idle
<1>3. CASE UNCHANGED <<auth, minted>>
  BY <1>1, <1>2, <1>3
<1>4. CASE Writable /\ token \in auth.tokens /\ Mint /\ ~UNCHANGED <<auth, minted>>
  <2>1. auth' = [auth EXCEPT !.tokens = @ \ {token}, !.revision = minted',
                   !.state = IF auth.tokens = {token} THEN "READY" ELSE "DIRTY"]
    BY <1>4 DEF Finish
  <2>2. /\ auth'.epoch = auth.epoch /\ auth'.revision = minted'
        /\ auth'.tokens = auth.tokens \ {token} /\ minted' = minted + 1
    BY <1>4, <2>1 DEF Mint
  <2>3. auth'.state = "READY" => auth'.tokens = {}
    BY <2>1, <2>2
  <2>4. auth' \in Records
    <3>1. auth.tokens \ {token} \in SUBSET Nat /\ minted' \in Nat
      BY <2>2
    <3>2. (IF auth.tokens = {token} THEN "READY" ELSE "DIRTY")
            \in {"READY", "DIRTY", "UNTRUSTED"}
      OBVIOUS
    <3>. QED BY <2>1, <3>1, <3>2
  <2>5. AuthorityTyped' /\ auth'.epoch <= epoch' /\ auth'.revision <= minted'
    BY <1>1, <1>2, <2>2, <2>4
  <2>6. \A t \in limbo' : t <= minted' /\ (Writable' => t \in auth'.tokens)
    BY <1>1, <1>4, <2>2 DEF Finish
  <2>7. \A v \in Writers : Working(v)' =>
          /\ writer'[v].token <= minted' /\ writer'[v].token \notin limbo'
          /\ Writable' => writer'[v].token \in auth'.tokens
    BY <1>1, <1>2, <1>4, <2>2 DEF Finish
  <2>8. \A v, x \in Writers :
          Working(v)' /\ Working(x)' /\ writer'[v].token = writer'[x].token => v = x
    BY <1>2
  <2>. QED BY <2>3, <2>5, <2>6, <2>7, <2>8
<1>. QED BY <1>3, <1>4 DEF Finish

LEMMA OtherInv ==
  ASSUME AuthorityInv,
         \/ \E w \in Writers : BeginTooMany(w) \/ FinishLost(w)
         \/ \E t \in limbo : Settle(t)
         \/ Invalidate \/ Bootstrap \/ Restart
  PROVE  AuthorityInv'
<1>1. ASSUME NEW w \in Writers, BeginTooMany(w) PROVE AuthorityInv'
  BY <1>1 DEF BeginTooMany
<1>2. ASSUME NEW w \in Writers, FinishLost(w) PROVE AuthorityInv'
  BY <1>2 DEF FinishLost, Retire, Idle
<1>3. ASSUME NEW t \in limbo, Settle(t) PROVE AuthorityInv'
  BY <1>3 DEF Settle
<1>4. CASE Invalidate
  BY <1>4 DEF Invalidate
<1>5. CASE Bootstrap
  BY <1>5 DEF Bootstrap, Proven, Mint
<1>6. CASE Restart
  BY <1>6 DEF Restart
<1>. QED BY <1>1, <1>2, <1>3, <1>4, <1>5, <1>6

LEMMA AuthorityKeeps ==
  ASSUME AuthorityInv, AuthorityNext
  PROVE  AuthorityInv'
<1>1. ASSUME NEW w \in Writers,
             \/ Begin(w) \/ BeginTooMany(w) \/ Complete(w) \/ Unproven(w)
             \/ Finish(w) \/ FinishLost(w)
      PROVE  AuthorityInv'
  <2>. HIDE DEF AuthorityInv
  <2>. QED BY <1>1, BeginInv, CompleteInv, UnprovenInv, FinishInv, OtherInv
<1>2. CASE \E w \in Writers :
             \/ Begin(w) \/ BeginTooMany(w) \/ Complete(w) \/ Unproven(w)
             \/ Finish(w) \/ FinishLost(w)
  <2>. HIDE DEF AuthorityInv
  <2>. QED BY <1>1, <1>2
<1>3. CASE (\E t \in limbo : Settle(t)) \/ Invalidate \/ Bootstrap \/ Restart
  <2>. HIDE DEF AuthorityInv
  <2>. QED BY <1>3, OtherInv
<1>. QED BY <1>2, <1>3 DEF AuthorityNext

----------------------------------------------------------------------------
(* What a step of the authority may do to a reader. *)
Steady == UNCHANGED <<epoch, auth, corpus>>
Renewed == auth'.revision = minted' /\ minted < minted'

LEMMA AuthorityStep ==
  ASSUME AuthorityInv, AuthorityNext
  PROVE  /\ minted <= minted'
         /\ Steady \/ ~Readable' \/ Renewed
<1>. DEFINE Allowed == minted <= minted' /\ (Steady \/ ~Readable' \/ Renewed)
<1>1. ASSUME NEW w \in Writers, Unproven(w) \/ FinishLost(w)
      PROVE  Allowed
  BY <1>1 DEF Unproven, FinishLost, Steady
<1>2. ASSUME NEW w \in Writers, Begin(w)
      PROVE  Allowed
  <2>1. auth' = [auth EXCEPT !.tokens = @ \cup {minted'}, !.state = "DIRTY",
                            !.revision = minted']
    BY <1>2 DEF Begin
  <2>. QED BY <1>2, <2>1 DEF Begin, Mint
<1>3. ASSUME NEW w \in Writers, BeginTooMany(w)
      PROVE  Allowed
  BY <1>3 DEF BeginTooMany
<1>4. ASSUME NEW w \in Writers, Complete(w)
      PROVE  Allowed
  BY <1>4 DEF Complete
<1>5. ASSUME NEW w \in Writers, Finish(w)
      PROVE  Allowed
  <2>1. CASE UNCHANGED <<auth, minted>>
    BY <1>5, <2>1 DEF Finish, Steady
  <2>2. CASE ~UNCHANGED <<auth, minted>>
    <3>1. auth'.revision = minted' /\ Mint
      BY <1>5, <2>2 DEF Finish
    <3>. QED BY <3>1 DEF Mint, Renewed
  <2>. QED BY <2>1, <2>2
<1>6. ASSUME NEW t \in limbo, Settle(t)
      PROVE  Allowed
  BY <1>6 DEF Settle
<1>7. ASSUME Invalidate \/ Restart
      PROVE  Allowed
  BY <1>7 DEF Invalidate, Restart
<1>8. ASSUME Bootstrap
      PROVE  Allowed
  BY <1>8 DEF Bootstrap, Mint, Renewed
<1>. QED BY <1>1, <1>2, <1>3, <1>4, <1>5, <1>6, <1>7, <1>8 DEF AuthorityNext

HIDE DEF AuthorityInv, AuthorityTyped, Readable, Writable, Legible, Working, At, Records

----------------------------------------------------------------------------
(* The readers' half. *)

Futures == [state : States, rev : Nat, data : SUBSET Nat]
Progresses ==
  [pc : PCs, rev : Nat, src : Requests \cup {NoRequest}, waits : BOOLEAN,
   left : Nat, good : Nat, data : SUBSET Nat, kept : BOOLEAN]

DiscoveryTyped ==
  /\ pools \subseteq Requests /\ flights \subseteq Requests
  /\ future \in [Requests -> Futures]
  /\ req \in [Requests -> Progresses]

(* A published refresh is the collection of now while its revision is. *)
FutureInv(o) ==
  /\ future[o].rev <= minted
  /\ future[o].state = "published" =>
       /\ future[o].data # {}
       /\ Readable /\ auth.revision = future[o].rev => future[o].data = {corpus}
  /\ o \in pools => future[o].state = "published"
  /\ o \in flights => future[o].state = "pending"

Holding(r) ==
  \/ req[r].pc \in {"recheck", "publish", "serve", "doubt", "refill"}
  \/ On(r, "collect") /\ req[r].good > 0
  \/ On(r, "result") /\ Owns(r)

(* So are the points a request holds, and it holds some where it counts on *)
(* them; the refresh it uses was reserved for the revision it read.        *)
RequestInv(r) ==
  /\ req[r].rev <= minted
  /\ Same(r) => req[r].data \subseteq {corpus}
  /\ Holding(r) => req[r].data # {}
  /\ req[r].src # NoRequest /\ ~On(r, "release") =>
       /\ future[req[r].src].state # "none"
       /\ future[req[r].src].rev = req[r].rev
  /\ req[r].pc \in {"start", "reserve"} =>
       /\ future[r].state = "none" /\ req[r].src = NoRequest
       /\ req[r].data = {} /\ req[r].good = 0
  /\ req[r].pc \in {"collect", "publish"} => Owns(r)
  /\ On(r, "result") => req[r].src \in Requests

DiscoveryInv ==
  /\ DiscoveryTyped
  /\ \A r \in Requests : FutureInv(r) /\ RequestInv(r)

LEMMA InvCurrent == DiscoveryInv => PoolsCurrent
BY DEF DiscoveryInv, DiscoveryTyped, FutureInv, PoolsCurrent

LEMMA DiscoveryInitially == Init => DiscoveryInv
<1>. SUFFICES ASSUME Init PROVE DiscoveryInv
  OBVIOUS
<1>1. Fresh \in Progresses
  BY DiscoveryAssumption DEF Fresh, Progresses, PCs
<1>2. DiscoveryTyped
  BY <1>1 DEF Init, DiscoveryTyped, Futures, States
<1>3. \A r \in Requests : FutureInv(r)
  BY DEF Init, AuthorityInit, FutureInv
<1>4. \A r \in Requests : RequestInv(r)
  BY DEF Init, AuthorityInit, RequestInv, Fresh, Holding, On, Owns
<1>. QED BY <1>2, <1>3, <1>4 DEF DiscoveryInv

(* A step of the authority does not disturb the readers. *)
LEMMA AuthorityHarmless ==
  ASSUME AuthorityInv, DiscoveryInv, AuthorityNext, UNCHANGED discoveryVars
  PROVE  DiscoveryInv'
<1>1. minted \in Nat /\ minted' \in Nat /\ minted <= minted'
  BY AuthorityStep, AuthorityKeeps DEF AuthorityInv, AuthorityTyped
<1>2. DiscoveryTyped'
  BY DEF DiscoveryInv, DiscoveryTyped, discoveryVars
<1>3. \A r \in Requests : future[r].rev \in Nat /\ req[r].rev \in Nat
  BY DEF DiscoveryInv, DiscoveryTyped, Futures, Progresses
<1>4. \A r \in Requests : FutureInv(r)'
  BY <1>1, <1>3, AuthorityStep
     DEF DiscoveryInv, FutureInv, discoveryVars, Steady, Renewed, Readable, Legible
<1>5. \A r \in Requests : RequestInv(r)'
  BY <1>1, <1>3, AuthorityStep
     DEF DiscoveryInv, RequestInv, discoveryVars, Steady, Renewed, Readable, Legible,
         Same, Holding, On, Owns
<1>. QED BY <1>2, <1>4, <1>5 DEF DiscoveryInv

----------------------------------------------------------------------------
(* A request's step changes its own refresh at most, and one that exists   *)
(* keeps its revision; then only the request itself is left to look at.    *)

Keeps(r) ==
  /\ future' \in [Requests -> Futures]
  /\ \A o \in Requests \ {r} : future'[o] = future[o]
  /\ future[r].state # "none" =>
       future'[r].state # "none" /\ future'[r].rev = future[r].rev

LEMMA RequestStep ==
  ASSUME DiscoveryInv, UNCHANGED authorityVars, NEW r \in Requests,
         NEW q \in Progresses, Set(r, q), Keeps(r),
         pools' \subseteq Requests, flights' \subseteq Requests,
         \A o \in Requests : FutureInv(o)', RequestInv(r)'
  PROVE  DiscoveryInv'
<1>1. req' \in [Requests -> Progresses] /\ \A p \in Requests \ {r} : req'[p] = req[p]
  BY DEF DiscoveryInv, DiscoveryTyped, Set
<1>2. ASSUME NEW p \in Requests, p # r PROVE RequestInv(p)'
  <2>1. RequestInv(p) /\ req'[p] = req[p] /\ future'[p] = future[p]
    BY <1>1, <1>2 DEF DiscoveryInv, Keeps
  <2>2. req[p].src # NoRequest => req[p].src \in Requests
    BY DEF DiscoveryInv, DiscoveryTyped, Progresses
  <2>3. req[p].src # NoRequest /\ ~On(p, "release") =>
          /\ future'[req[p].src].state # "none"
          /\ future'[req[p].src].rev = req[p].rev
    BY <2>1, <2>2 DEF RequestInv, Keeps
  <2>. QED BY <2>1, <2>3 DEF RequestInv, Same, Readable, Legible, Holding, On, Owns,
                              authorityVars
<1>. QED BY <1>1, <1>2 DEF DiscoveryInv, DiscoveryTyped, Keeps

(* Pools and refreshes only go, unless a request owns or publishes. *)
Settles(r) ==
  /\ pools' \subseteq pools
  /\ (flights' \subseteq flights /\ UNCHANGED future) \/ Fail(r)

LEMMA Settled ==
  ASSUME DiscoveryInv, UNCHANGED authorityVars, NEW r \in Requests, Settles(r)
  PROVE  /\ Keeps(r)
         /\ pools' \subseteq Requests /\ flights' \subseteq Requests
         /\ \A o \in Requests : FutureInv(o)'
<1>1. pools' \subseteq pools /\ flights' \subseteq flights
  BY DEF Settles, Fail
<1>2. CASE UNCHANGED future
  <2>1. \A o \in Requests : FutureInv(o)'
    BY <1>1, <1>2 DEF DiscoveryInv, FutureInv, Readable, Legible, authorityVars
  <2>. QED BY <1>1, <1>2, <2>1 DEF DiscoveryInv, DiscoveryTyped, Keeps
<1>3. CASE r \in flights /\ Fail(r)
  <2>1. /\ future' \in [Requests -> Futures] /\ \A o \in Requests \ {r} : future'[o] = future[o]
        /\ future'[r].state = "failed" /\ future'[r].rev = future[r].rev
        /\ r \notin flights'
    BY <1>3 DEF DiscoveryInv, DiscoveryTyped, Fail, Futures, States
  <2>2. r \notin pools'
    BY <1>1, <1>3 DEF DiscoveryInv, FutureInv
  <2>3. FutureInv(r)'
    BY <2>1, <2>2 DEF DiscoveryInv, FutureInv, authorityVars
  <2>4. ASSUME NEW o \in Requests, o # r PROVE FutureInv(o)'
    BY <1>1, <2>1, <2>4 DEF DiscoveryInv, FutureInv, Readable, Legible, authorityVars
  <2>. QED BY <1>1, <2>1, <2>3, <2>4 DEF DiscoveryInv, DiscoveryTyped, Keeps
<1>. QED BY <1>2, <1>3 DEF Settles, Fail

(* A request that leaves keeps nothing but its lease. *)
LEMMA Left ==
  ASSUME DiscoveryInv, UNCHANGED authorityVars, NEW r \in Requests, Settles(r),
         Leave(r), minted \in Nat
  PROVE  DiscoveryInv'
<1>. DEFINE q == [Fresh EXCEPT !.pc = "release", !.src = req[r].src, !.waits = req[r].waits]
<1>1. q \in Progresses 
  BY DiscoveryAssumption DEF DiscoveryInv, DiscoveryTyped, Progresses, Fresh, PCs
<1>2. req'[r] = q
  BY DEF Leave, Set, DiscoveryInv, DiscoveryTyped
<1>3. RequestInv(r)'
  <2>1. q.pc = "release" /\ q.rev = 0 /\ q.data = {}
    BY DEF Fresh
  <2>. QED BY <1>2, <2>1 DEF RequestInv, Holding, On, authorityVars
<1>. QED BY <1>1, <1>3, Settled, RequestStep DEF Leave

(* A request that moves on with what it has. *)
LEMMA Carried ==
  ASSUME DiscoveryInv, UNCHANGED authorityVars, NEW r \in Requests, Settles(r),
         NEW q \in Progresses, Set(r, q), ~On(r, "release"),
         q.rev = req[r].rev, q.src = req[r].src, q.data = req[r].data,
         q.pc \notin {"start", "reserve", "collect", "result"},
         q.pc = "publish" => Owns(r),
         q.pc = "release" \/ req[r].data # {}
  PROVE  DiscoveryInv'
<1>1. Keeps(r)
  BY Settled
<1>2. req'[r] = q /\ RequestInv(r)
  BY DEF Set, DiscoveryInv, DiscoveryTyped
<1>3. req[r].src # NoRequest =>
        /\ future'[req[r].src].state # "none"
        /\ future'[req[r].src].rev = req[r].rev
  <2>. SUFFICES ASSUME req[r].src # NoRequest
       PROVE  /\ future'[req[r].src].state # "none"
              /\ future'[req[r].src].rev = req[r].rev
    OBVIOUS
  <2>1. req[r].src \in Requests
    BY DEF DiscoveryInv, DiscoveryTyped, Progresses
  <2>. QED BY <1>1, <1>2, <2>1 DEF RequestInv, Keeps
<1>4. RequestInv(r)'
  BY <1>2, <1>3 DEF RequestInv, Same, Readable, Legible, Holding, On, Owns, authorityVars
<1>. QED BY <1>4, Settled, RequestStep

----------------------------------------------------------------------------
(* The request's actions, one by one. *)

LEMMA AskInv ==
  ASSUME AuthorityInv, DiscoveryInv, UNCHANGED authorityVars, NEW r \in Requests, Ask(r)
  PROVE  DiscoveryInv'
<1>1. Settles(r) /\ minted \in Nat /\ auth.revision \in Nat /\ auth.revision <= minted
  BY DEF Ask, Settles, AuthorityInv, AuthorityTyped, Records
<1>2. CASE Leave(r)
  BY <1>1, <1>2, Left
<1>3. CASE Set(r, [req[r] EXCEPT !.rev = auth.revision, !.pc = "reserve"])
  <2>. DEFINE q == [req[r] EXCEPT !.rev = auth.revision, !.pc = "reserve"]
  <2>1. req[r] \in Progresses /\ RequestInv(r) /\ req'[r] = q /\ future'[r] = future[r]
    BY <1>3 DEF Ask, DiscoveryInv, DiscoveryTyped, Set
  <2>2. q \in Progresses /\ q.rev = auth.revision /\ q.pc = "reserve"
        /\ q.src = req[r].src /\ q.data = req[r].data /\ q.good = req[r].good
    BY <1>1, <2>1 DEF Progresses, PCs
  <2>3. RequestInv(r)'
    BY <1>1, <2>1, <2>2 DEF Ask, RequestInv, Holding, On, authorityVars
  <2>. QED BY <1>1, <1>3, <2>2, <2>3, Settled, RequestStep
<1>. QED BY <1>2, <1>3 DEF Ask

(* A lease on a pool or a refresh found under the request's revision. *)
LEMMA LeaseInv ==
  ASSUME DiscoveryInv, UNCHANGED authorityVars, NEW r \in Requests, Hit(r) \/ Join(r)
  PROVE  DiscoveryInv'
<1>1. Settles(r)
  BY DEF Hit, Join, Missed, Unexpired, Settles
<1>2. PICK o \in pools \cup flights :
        /\ On(r, "reserve") /\ future[o].rev = req[r].rev
        /\ \/ Set(r, [req[r] EXCEPT !.src = o, !.pc = "result"])
           \/ Set(r, [req[r] EXCEPT !.src = o, !.waits = TRUE, !.pc = "result"])
  BY DEF Hit, Join, Missed, Unexpired
<1>3. o \in Requests /\ future[o].state # "none" /\ o # r /\ UNCHANGED future
  BY <1>2 DEF DiscoveryInv, DiscoveryTyped, FutureInv, RequestInv, On, Hit, Join
<1>4. req[r] \in Progresses /\ RequestInv(r)
  BY DEF DiscoveryInv, DiscoveryTyped
<1>5. PICK q \in Progresses :
        Set(r, q) /\ q.pc = "result" /\ q.src = o /\ q.rev = req[r].rev /\ q.data = req[r].data
  <2>1. CASE Set(r, [req[r] EXCEPT !.src = o, !.pc = "result"])
    <3>. DEFINE q == [req[r] EXCEPT !.src = o, !.pc = "result"]
    <3>1. /\ q \in Progresses /\ q.pc = "result" /\ q.src = o /\ q.rev = req[r].rev
          /\ q.data = req[r].data
      BY <1>3, <1>4 DEF Progresses, PCs
    <3>. QED BY <2>1, <3>1
  <2>2. CASE Set(r, [req[r] EXCEPT !.src = o, !.waits = TRUE, !.pc = "result"])
    <3>. DEFINE q == [req[r] EXCEPT !.src = o, !.waits = TRUE, !.pc = "result"]
    <3>1. /\ q \in Progresses /\ q.pc = "result" /\ q.src = o /\ q.rev = req[r].rev
          /\ q.data = req[r].data
      BY <1>3, <1>4 DEF Progresses, PCs
    <3>. QED BY <2>2, <3>1
  <2>. QED BY <1>2, <2>1, <2>2
<1>6. req'[r] = q
  BY <1>5 DEF Set, DiscoveryInv, DiscoveryTyped
<1>7. RequestInv(r)'
  BY <1>2, <1>3, <1>4, <1>5, <1>6
     DEF RequestInv, Same, Readable, Legible, Holding, On, Owns, authorityVars
<1>. QED BY <1>1, <1>5, <1>7, Settled, RequestStep

LEMMA OwnInv ==
  ASSUME DiscoveryInv, UNCHANGED authorityVars, NEW r \in Requests, Own(r)
  PROVE  DiscoveryInv'
<1>. DEFINE q == [req[r] EXCEPT !.src = r, !.pc = "collect"]
<1>1. req[r] \in Progresses /\ future[r] \in Futures /\ RequestInv(r) /\ FutureInv(r)
  BY DEF DiscoveryInv, DiscoveryTyped
<1>2. On(r, "reserve") /\ future[r].state = "none" /\ req[r].data = {} /\ req[r].rev <= minted
  BY <1>1 DEF Own, Missed, RequestInv, On
<1>3. /\ q \in Progresses /\ q.pc = "collect" /\ q.src = r /\ q.rev = req[r].rev
      /\ q.data = {} /\ q.good = req[r].good
  BY <1>1, <1>2 DEF Progresses, PCs
<1>4. Set(r, q) /\ req'[r] = q
  BY DEF Own, Set, DiscoveryInv, DiscoveryTyped
<1>5. future'[r].state = "pending" /\ future'[r].rev = req[r].rev
      /\ \A o \in Requests \ {r} : future'[o] = future[o]
  BY DEF Own, DiscoveryInv, DiscoveryTyped, Futures
<1>6. future' \in [Requests -> Futures]
  BY <1>1 DEF Own, DiscoveryInv, DiscoveryTyped, Futures, States, Progresses
<1>7. pools' \subseteq pools /\ flights' = flights \cup {r} /\ r \notin pools
  BY <1>1, <1>2 DEF Own, Missed, Unexpired, FutureInv
<1>8. \A o \in Requests : FutureInv(o)'
  BY <1>2, <1>5, <1>7 DEF DiscoveryInv, FutureInv, Readable, Legible, authorityVars
<1>9. RequestInv(r)'
  <2>1. req[r].good = 0
    BY <1>1, <1>2 DEF RequestInv, On
  <2>. QED BY <1>2, <1>3, <1>4, <1>5, <2>1 DEF RequestInv, Holding, On, Owns, authorityVars
<1>. QED BY <1>2, <1>3, <1>4, <1>5, <1>6, <1>7, <1>8, <1>9, RequestStep
            DEF Keeps, DiscoveryInv, DiscoveryTyped

LEMMA ReadInv ==
  ASSUME AuthorityInv, DiscoveryInv, UNCHANGED authorityVars, NEW r \in Requests, Read(r)
  PROVE  DiscoveryInv'
<1>1. Settles(r)
  BY DEF Read, Settles
<1>2. req[r] \in Progresses /\ RequestInv(r) /\ corpus \in Nat
  BY DEF DiscoveryInv, DiscoveryTyped, AuthorityInv, AuthorityTyped
<1>3. PICK q \in Progresses :
        /\ Set(r, q) /\ q.pc = "collect" /\ q.src = req[r].src /\ q.rev = req[r].rev
        /\ \/ q.data = req[r].data \cup {corpus}
           \/ q.data = req[r].data /\ q.good = req[r].good
  <2>1. CASE Set(r, [req[r] EXCEPT !.left = @ - 1, !.good = @ + 1, !.data = @ \cup {corpus}])
    <3>1. req[r].data \cup {corpus} \in SUBSET Nat /\ req[r].good + 1 \in Nat
          /\ req[r].left - 1 \in Nat
      BY <1>2 DEF Read, Progresses
    <3>. DEFINE q == [req[r] EXCEPT !.left = @ - 1, !.good = @ + 1, !.data = @ \cup {corpus}]
    <3>2. /\ q \in Progresses /\ q.pc = req[r].pc /\ q.src = req[r].src
          /\ q.rev = req[r].rev /\ q.data = req[r].data \cup {corpus}
      BY <1>2, <3>1 DEF Progresses
    <3>. QED BY <2>1, <3>2 DEF Read, On
  <2>2. CASE Set(r, [req[r] EXCEPT !.left = @ - 1])
    <3>1. req[r].left - 1 \in Nat
      BY <1>2 DEF Read, Progresses
    <3>. DEFINE q == [req[r] EXCEPT !.left = @ - 1]
    <3>2. /\ q \in Progresses /\ q.pc = req[r].pc /\ q.src = req[r].src
          /\ q.rev = req[r].rev /\ q.data = req[r].data /\ q.good = req[r].good
      BY <1>2, <3>1 DEF Progresses
    <3>. QED BY <2>2, <3>2 DEF Read, On
  <2>. QED BY <2>1, <2>2 DEF Read
<1>4. req'[r] = q /\ UNCHANGED future
  BY <1>3 DEF Set, DiscoveryInv, DiscoveryTyped, Read
<1>5. RequestInv(r)'
  BY <1>2, <1>3, <1>4
     DEF Read, RequestInv, Same, Readable, Legible, Holding, On, Owns, authorityVars
<1>. QED BY <1>1, <1>3, <1>5, Settled, RequestStep

(* The steps that only decide: each moves on with what it has, or leaves. *)
LEMMA ThenInv ==
  ASSUME DiscoveryInv, UNCHANGED authorityVars, NEW r \in Requests, Settles(r),
         NEW pc \in PCs \ {"start", "reserve", "collect", "result"}, Then(r, pc), ~On(r, "release"),
         pc = "publish" => Owns(r), req[r].data # {}
  PROVE  DiscoveryInv'
<1>. DEFINE q == [req[r] EXCEPT !.pc = pc]
<1>1. req[r] \in Progresses
  BY DEF DiscoveryInv, DiscoveryTyped
<1>2. /\ q \in Progresses /\ q.pc = pc /\ q.src = req[r].src /\ q.rev = req[r].rev
      /\ q.data = req[r].data
  BY <1>1 DEF Progresses
<1>. QED BY <1>2, Carried DEF Then

LEMMA KeptInv ==
  ASSUME DiscoveryInv, UNCHANGED authorityVars, NEW r \in Requests, Settles(r),
         NEW pc \in PCs \ {"start", "reserve", "collect", "result"}, NEW k \in BOOLEAN,
         Set(r, [req[r] EXCEPT !.kept = k, !.pc = pc]), ~On(r, "release"),
         pc = "publish" => Owns(r), req[r].data # {}
  PROVE  DiscoveryInv'
<1>. DEFINE q == [req[r] EXCEPT !.kept = k, !.pc = pc]
<1>1. req[r] \in Progresses
  BY DEF DiscoveryInv, DiscoveryTyped
<1>2. /\ q \in Progresses /\ q.pc = pc /\ q.src = req[r].src /\ q.rev = req[r].rev
      /\ q.data = req[r].data
  BY <1>1 DEF Progresses
<1>. QED BY <1>2, Carried

LEMMA CollectedInv ==
  ASSUME DiscoveryInv, UNCHANGED authorityVars, minted \in Nat, NEW r \in Requests,
         Collected(r)
  PROVE  DiscoveryInv'
<1>1. Settles(r) /\ On(r, "collect") /\ ~On(r, "release")
  BY DEF Collected, Settles, On
<1>2. req[r].good > 0 => req[r].data # {}
  BY <1>1 DEF DiscoveryInv, RequestInv, Holding
<1>3. CASE Leave(r)
  BY <1>1, <1>3, Left
<1>4. CASE req[r].good = Channels /\ Then(r, "recheck")
  BY <1>1, <1>2, <1>4, ThenInv, DiscoveryAssumption DEF PCs
<1>5. CASE req[r].good > 0 /\ Then(r, "doubt")
  BY <1>1, <1>2, <1>5, ThenInv DEF PCs
<1>. QED BY <1>3, <1>4, <1>5 DEF Collected

LEMMA ResultInv ==
  ASSUME DiscoveryInv, UNCHANGED authorityVars, minted \in Nat, NEW r \in Requests,
         Result(r)
  PROVE  DiscoveryInv'
<1>1. Settles(r) /\ On(r, "result") /\ ~On(r, "release") /\ UNCHANGED future
  BY DEF Result, Settles, On
<1>2. req[r] \in Progresses /\ RequestInv(r)
  BY DEF DiscoveryInv, DiscoveryTyped
<1>3. Owns(r) => req[r].data # {}
  BY <1>1, <1>2 DEF RequestInv, Holding
<1>4. CASE Leave(r)
  BY <1>1, <1>4, Left
<1>5. CASE Owns(r) /\ Then(r, "serve")
  BY <1>1, <1>3, <1>5, ThenInv DEF PCs
<1>6. CASE Owns(r) /\ Then(r, "doubt")
  BY <1>1, <1>3, <1>6, ThenInv DEF PCs
<1>7. CASE /\ future[req[r].src].state = "published" /\ ~Owns(r)
           /\ Set(r, [req[r] EXCEPT !.data = future[req[r].src].data, !.pc = "recheck"])
  <2>. DEFINE o == req[r].src
              q == [req[r] EXCEPT !.data = future[o].data, !.pc = "recheck"]
  <2>1. o \in Requests
    BY <1>1, <1>2 DEF RequestInv
  <2>2. future[o] \in Futures /\ FutureInv(o)
    BY <2>1 DEF DiscoveryInv, DiscoveryTyped
  <2>3. future[o].rev = req[r].rev /\ future[o].data # {}
          /\ (Same(r) => future[o].data \subseteq {corpus})
    BY <1>1, <1>2, <1>7, <2>1, <2>2, DiscoveryAssumption
         DEF RequestInv, FutureInv, Same
  <2>4. /\ q \in Progresses /\ q.pc = "recheck" /\ q.src = o /\ q.rev = req[r].rev
          /\ q.data = future[o].data
    BY <1>2, <2>2 DEF Progresses, Futures, PCs
  <2>5. req'[r] = q
    BY <1>7 DEF Set, DiscoveryInv, DiscoveryTyped
  <2>6. RequestInv(r)'
    BY <1>1, <1>2, <2>3, <2>4, <2>5
         DEF RequestInv, Same, Readable, Legible, Holding, On, Owns, authorityVars
  <2>. QED BY <1>1, <1>7, <2>4, <2>6, Settled, RequestStep
<1>. QED BY <1>4, <1>5, <1>6, <1>7 DEF Result

LEMMA RecheckInv ==
  ASSUME DiscoveryInv, UNCHANGED authorityVars, minted \in Nat, NEW r \in Requests,
         Recheck(r)
  PROVE  DiscoveryInv'
<1>1. Settles(r) /\ On(r, "recheck") /\ ~On(r, "release")
  BY DEF Recheck, Settles, On
<1>2. req[r].data # {}
  BY <1>1 DEF DiscoveryInv, RequestInv, Holding, On
<1>. DEFINE pc == IF Owns(r) THEN "publish" ELSE "serve"
<1>3. CASE Set(r, [req[r] EXCEPT !.kept = TRUE, !.pc = pc])
  <2>1. pc \in PCs \ {"start", "reserve", "collect", "result"} /\ (pc = "publish" => Owns(r))
    BY DEF PCs
  <2>. HIDE DEF pc
  <2>. QED BY <1>1, <1>2, <1>3, <2>1, KeptInv
<1>4. CASE Then(r, "doubt")
  BY <1>1, <1>2, <1>4, ThenInv DEF PCs
<1>5. CASE Leave(r)
  BY <1>1, <1>5, Left
<1>. QED BY <1>3, <1>4, <1>5 DEF Recheck

LEMMA DecideInv ==
  ASSUME DiscoveryInv, UNCHANGED authorityVars, minted \in Nat, NEW r \in Requests,
         Serve(r) \/ Doubt(r) \/ Final(r) \/ Deadline(r)
  PROVE  DiscoveryInv'
<1>1. Settles(r) /\ ~On(r, "release")
  BY DEF Serve, Doubt, Final, Deadline, Settles, On
<1>2. CASE Leave(r)
  BY <1>1, <1>2, Left
<1>3. CASE ~Leave(r)
  <2>1. req[r].data # {}
    BY <1>3 DEF DiscoveryInv, RequestInv, Holding, On, Serve, Doubt, Final, Deadline
  <2>2. CASE Set(r, [req[r] EXCEPT !.kept = FALSE, !.pc = "refill"])
    <3>. DEFINE pc == "refill"
    <3>1. pc \in PCs \ {"start", "reserve", "collect", "result"} /\ pc # "publish"
      BY DEF PCs
    <3>2. Set(r, [req[r] EXCEPT !.kept = FALSE, !.pc = pc])
      BY <2>2
    <3>. HIDE DEF pc
    <3>. QED BY <1>1, <2>1, <3>1, <3>2, KeptInv
  <2>3. CASE Set(r, [req[r] EXCEPT !.kept = TRUE, !.pc = "release"])
    <3>. DEFINE pc == "release"
    <3>1. pc \in PCs \ {"start", "reserve", "collect", "result"} /\ pc # "publish"
      BY DEF PCs
    <3>2. Set(r, [req[r] EXCEPT !.kept = TRUE, !.pc = pc])
      BY <2>3
    <3>. HIDE DEF pc
    <3>. QED BY <1>1, <2>1, <3>1, <3>2, KeptInv
  <2>. QED BY <1>3, <2>2, <2>3 DEF Serve, Doubt, Final, Deadline
<1>. QED BY <1>2, <1>3

LEMMA PublishInv ==
  ASSUME DiscoveryInv, UNCHANGED authorityVars, NEW r \in Requests, Publish(r)
  PROVE  DiscoveryInv'
<1>. DEFINE q == [req[r] EXCEPT !.pc = "result"]
<1>1. req[r] \in Progresses /\ future[r] \in Futures /\ RequestInv(r) /\ FutureInv(r)
  BY DEF DiscoveryInv, DiscoveryTyped
<1>2. /\ Owns(r) /\ req[r].data # {} /\ future[r].state # "none"
      /\ future[r].rev = req[r].rev /\ (Same(r) => req[r].data \subseteq {corpus})
  <2>1. r # NoRequest
    BY DiscoveryAssumption
  <2>. QED BY <1>1, <2>1 DEF Publish, RequestInv, Holding, On, Owns
<1>3. /\ q \in Progresses /\ q.pc = "result" /\ q.src = req[r].src /\ q.rev = req[r].rev
      /\ q.data = req[r].data
  BY <1>1 DEF Progresses, PCs
<1>4. Set(r, q) /\ req'[r] = q
  BY DEF Publish, Then, Set, DiscoveryInv, DiscoveryTyped
<1>5. /\ future'[r].state = "published" /\ future'[r].rev = future[r].rev
      /\ future'[r].data = req[r].data
      /\ \A o \in Requests \ {r} : future'[o] = future[o]
      /\ future' \in [Requests -> Futures]
  BY <1>1 DEF Publish, DiscoveryInv, DiscoveryTyped, Futures, States, Progresses
<1>6. pools' \subseteq pools \cup {r} /\ flights' = flights \ {r}
  BY DEF Publish, Room
<1>7. FutureInv(r)'
  BY <1>1, <1>2, <1>5, <1>6 DEF FutureInv, Same, Readable, Legible, authorityVars
<1>8. ASSUME NEW o \in Requests, o # r PROVE FutureInv(o)'
  BY <1>5, <1>6, <1>8 DEF DiscoveryInv, FutureInv, Readable, Legible, authorityVars
<1>9. RequestInv(r)'
  BY <1>1, <1>2, <1>3, <1>4, <1>5
     DEF RequestInv, Same, Readable, Legible, Holding, On, Owns, authorityVars
<1>10. Keeps(r) /\ pools' \subseteq Requests /\ flights' \subseteq Requests
  BY <1>5, <1>6 DEF Keeps, DiscoveryInv, DiscoveryTyped
<1>. QED BY <1>3, <1>4, <1>7, <1>8, <1>9, <1>10, RequestStep

LEMMA ReleaseInv ==
  ASSUME DiscoveryInv, UNCHANGED authorityVars, minted \in Nat, NEW r \in Requests,
         Release(r)
  PROVE  DiscoveryInv'
<1>. DEFINE q == [Fresh EXCEPT !.pc = "done"]
<1>1. Settles(r) /\ Set(r, q)
  BY DEF Release, Settles
<1>2. q \in Progresses
  BY DiscoveryAssumption DEF Progresses, Fresh, PCs
<1>3. q.pc = "done" /\ q.rev = 0 /\ q.data = {} /\ q.src = NoRequest
  BY DEF Fresh
<1>4. req'[r] = q
  BY <1>1 DEF Set, DiscoveryInv, DiscoveryTyped
<1>5. RequestInv(r)'
  BY <1>3, <1>4 DEF RequestInv, Holding, On, authorityVars
<1>. QED BY <1>1, <1>2, <1>5, Settled, RequestStep

LEMMA AgeInv ==
  ASSUME DiscoveryInv, UNCHANGED authorityVars, NEW r \in Requests, Age(r)
  PROVE  DiscoveryInv'
BY DEF Age, DiscoveryInv, DiscoveryTyped, FutureInv, RequestInv, Same, Readable, Legible,
       Holding, On, Owns, authorityVars

LEMMA RequestInvKept ==
  ASSUME AuthorityInv, DiscoveryInv, UNCHANGED authorityVars, DiscoveryNext
  PROVE  DiscoveryInv'
<1>1. minted \in Nat
  BY DEF AuthorityInv, AuthorityTyped
<1>2. ASSUME NEW r \in Requests, Progress(r) PROVE DiscoveryInv'
  <2>1. CASE Bypass(r)
    <3>1. Settles(r) /\ Leave(r)
      BY <2>1 DEF Bypass, Missed, Unexpired, Settles
    <3>. QED BY <1>1, <3>1, Left
  <2>. QED BY <1>1, <1>2, <2>1, AskInv, LeaseInv, OwnInv, ReadInv, CollectedInv, ResultInv,
              RecheckInv, PublishInv, DecideInv, ReleaseInv DEF Progress
<1>. QED BY <1>1, <1>2, DecideInv, AgeInv DEF DiscoveryNext

(* A request that starts to keep a pool holds the collection of now. *)
LEMMA Accepting ==
  ASSUME DiscoveryInv, NEW r \in Requests, Progress(r) \/ Deadline(r) \/ Age(r),
         NEW p \in Requests, ~req[p].kept, req'[p].kept
  PROVE  req[p].data = {corpus}
<1>1. req \in [Requests -> Progresses] /\ RequestInv(p)
  BY DEF DiscoveryInv, DiscoveryTyped
<1>2. ~Age(r)
  BY DEF Age
<1>3. PICK q : Set(r, q)
  BY <1>2 DEF Progress, Deadline, Ask, Hit, Join, Own, Bypass, Read, Collected, Result,
       Recheck, Publish, Serve, Doubt, Final, Release, Leave, Then
<1>4. p = r
  BY <1>1, <1>3 DEF Set
<1>5. ~Leave(r)
  <2>1. [Fresh EXCEPT !.pc = "release", !.src = req[r].src, !.waits = req[r].waits].kept = FALSE
    BY DEF Fresh
  <2>. QED BY <1>1, <1>4, <2>1 DEF Leave, Set
<1>6. ~Release(r)
  <2>1. [Fresh EXCEPT !.pc = "done"].kept = FALSE
    BY DEF Fresh
  <2>. QED BY <1>1, <1>4, <2>1 DEF Release, Set
<1>7. ASSUME NEW pc, Then(r, pc) PROVE FALSE
  <2>1. [req[r] EXCEPT !.pc = pc].kept = req[r].kept
    BY <1>1 DEF Progresses
  <2>. QED BY <1>1, <1>4, <1>7, <2>1 DEF Then, Set
<1>8. ASSUME NEW pc, Set(r, [req[r] EXCEPT !.kept = FALSE, !.pc = pc]) PROVE FALSE
  <2>1. [req[r] EXCEPT !.kept = FALSE, !.pc = pc].kept = FALSE
    BY <1>1 DEF Progresses
  <2>. QED BY <1>1, <1>4, <1>8, <2>1 DEF Set
<1>9. CASE Recheck(r) \/ Final(r)
  <2>1. Same(r) /\ Holding(r)
    BY <1>5, <1>7, <1>9 DEF Recheck, Final, Holding, On
  <2>. QED BY <1>1, <1>4, <2>1 DEF RequestInv
<1>10. ASSUME NEW row, Set(r, row), row.kept = req[r].kept PROVE FALSE
  BY <1>1, <1>4, <1>10 DEF Set
<1>11. ASSUME NEW x, NEW y, Set(r, [req[r] EXCEPT !.rev = x, !.pc = y]) PROVE FALSE
  <2>1. [req[r] EXCEPT !.rev = x, !.pc = y].kept = req[r].kept
    BY <1>1 DEF Progresses
  <2>. QED BY <1>10, <1>11, <2>1
<1>12. ASSUME NEW x, NEW y, Set(r, [req[r] EXCEPT !.src = x, !.pc = y]) PROVE FALSE
  <2>1. [req[r] EXCEPT !.src = x, !.pc = y].kept = req[r].kept
    BY <1>1 DEF Progresses
  <2>. QED BY <1>10, <1>12, <2>1
<1>13. ASSUME NEW x, NEW y, Set(r, [req[r] EXCEPT !.src = x, !.waits = TRUE, !.pc = y]) PROVE FALSE
  <2>1. [req[r] EXCEPT !.src = x, !.waits = TRUE, !.pc = y].kept = req[r].kept
    BY <1>1 DEF Progresses
  <2>. QED BY <1>10, <1>13, <2>1
<1>14. ASSUME NEW x, NEW y, Set(r, [req[r] EXCEPT !.data = x, !.pc = y]) PROVE FALSE
  <2>1. [req[r] EXCEPT !.data = x, !.pc = y].kept = req[r].kept
    BY <1>1 DEF Progresses
  <2>. QED BY <1>10, <1>14, <2>1
<1>15. ASSUME NEW x, NEW y, NEW z, Set(r, [req[r] EXCEPT !.left = x, !.good = y, !.data = z]) PROVE FALSE
  <2>1. [req[r] EXCEPT !.left = x, !.good = y, !.data = z].kept = req[r].kept
    BY <1>1 DEF Progresses
  <2>. QED BY <1>10, <1>15, <2>1
<1>16. ASSUME NEW x, Set(r, [req[r] EXCEPT !.left = x]) PROVE FALSE
  <2>1. [req[r] EXCEPT !.left = x].kept = req[r].kept
    BY <1>1 DEF Progresses
  <2>. QED BY <1>10, <1>16, <2>1
<1>17. CASE Ask(r) \/ Own(r)
  BY <1>5, <1>11, <1>12, <1>17 DEF Ask, Own
<1>18. CASE Hit(r) \/ Join(r)
  BY <1>12, <1>13, <1>18 DEF Hit, Join
<1>19. CASE Read(r)
  BY <1>15, <1>16, <1>19 DEF Read
<1>20. CASE Result(r)
  BY <1>5, <1>7, <1>14, <1>20 DEF Result
<1>. QED BY <1>2, <1>5, <1>6, <1>7, <1>8, <1>9, <1>17, <1>18, <1>19, <1>20
         DEF Progress, Deadline, Bypass, Collected, Publish, Serve, Doubt

----------------------------------------------------------------------------
(* The leases: the count of waiters is their number, and a refresh under   *)
(* way is its owner's, alone in its revision.                              *)

Waiters == {r \in Requests : req[r].waits}

LeasesInv ==
  /\ IsFiniteSet(Waiters) /\ NothingLeaks
  /\ \A r \in Requests : req[r].pc \in {"start", "reserve"} => ~req[r].waits

LEMMA LeaseInitially == Init => LeasesInv
<1>. SUFFICES ASSUME Init PROVE LeasesInv
  OBVIOUS
<1>1. /\ \A r \in Requests : req[r] = Fresh /\ future[r].state = "none"
      /\ flights = {} /\ waiting = 0
  BY DEF Init
<1>2. Waiters = {}
  BY <1>1 DEF Waiters, Fresh
<1>3. IsFiniteSet({}) /\ Cardinality({}) = 0
  BY FS_EmptySet
<1>. QED BY <1>1, <1>2, <1>3 DEF LeasesInv, NothingLeaks, Waiters, Fresh

(* A refresh goes on, or its owner ends it. *)
Ends(r) ==
  \/ UNCHANGED <<flights, future>>
  \/ /\ flights' = flights \ {r} /\ \A o \in Requests \ {r} : future'[o] = future[o]
     /\ future'[r].state # "pending"

LEMMA FailEnds ==
  ASSUME DiscoveryInv, NEW r \in Requests, Fail(r)
  PROVE  Ends(r)
<1>1. CASE r \in flights
  BY <1>1 DEF Fail, Ends, DiscoveryInv, DiscoveryTyped, Futures
<1>2. CASE r \notin flights
  BY <1>2 DEF Fail, Ends
<1>. QED BY <1>1, <1>2

(* A request on its way, with the lease it has. *)
Proceeds(r, q) ==
  /\ q.waits = req[r].waits /\ q.pc \notin {"start", "done"}
  /\ q.pc = "reserve" => On(r, "start")

LEMMA LeaseKept ==
  ASSUME DiscoveryInv, LeasesInv, NEW r \in Requests, NEW q, Set(r, q), Proceeds(r, q),
         q.src = req[r].src \/ r \notin flights, waiting' = waiting, Ends(r)
  PROVE  LeasesInv'
<1>1. \A p \in Requests : req'[p] = IF p = r THEN q ELSE req[p]
  BY DEF DiscoveryInv, DiscoveryTyped, Set
<1>2. Waiters' = Waiters
  BY <1>1 DEF Waiters, Proceeds
<1>3. \A p \in Requests : req'[p].pc \in {"start", "reserve"} => ~req'[p].waits
  BY <1>1 DEF LeasesInv, Proceeds, On
<1>4. /\ \A o, p \in flights' : future'[o].rev = future'[p].rev => o = p
      /\ \A p \in Requests : future'[p].state = "pending" <=> p \in flights'
      /\ flights' \subseteq flights /\ flights \subseteq Requests
  BY DEF LeasesInv, NothingLeaks, Ends, DiscoveryInv, DiscoveryTyped
<1>5. \A o \in flights' : req'[o].src = o /\ req'[o].pc # "done"
  BY <1>1, <1>4 DEF LeasesInv, NothingLeaks, Proceeds, Owns, On
<1>. QED BY <1>2, <1>3, <1>4, <1>5 DEF LeasesInv, NothingLeaks, Waiters, Owns, On

LEMMA ReserveLease ==
  ASSUME DiscoveryInv, DiscoveryInv', LeasesInv, NEW r \in Requests, Hit(r) \/ Join(r) \/ Own(r)
  PROVE  LeasesInv'
<1>1. /\ On(r, "reserve") /\ ~req[r].waits /\ r \notin flights /\ req[r] \in Progresses
      /\ flights \subseteq Requests
  BY DEF Hit, Join, Own, Missed, On, LeasesInv, DiscoveryInv, DiscoveryTyped, RequestInv, FutureInv
<1>2. CASE Hit(r)
  <2>. PICK o \in Requests \cup {NoRequest} : Set(r, [req[r] EXCEPT !.src = o, !.pc = "result"])
    BY <1>2 DEF Hit, Unexpired, DiscoveryInv, DiscoveryTyped
  <2>. DEFINE q == [req[r] EXCEPT !.src = o, !.pc = "result"]
  <2>1. Proceeds(r, q)
    BY <1>1 DEF Proceeds, Progresses
  <2>. QED BY <1>1, <1>2, <2>1, LeaseKept DEF Hit, Ends
<1>3. CASE Join(r)
  <2>. PICK o \in flights : Set(r, [req[r] EXCEPT !.src = o, !.waits = TRUE, !.pc = "result"])
    BY <1>3 DEF Join
  <2>. DEFINE q == [req[r] EXCEPT !.src = o, !.waits = TRUE, !.pc = "result"]
  <2>1. q.waits = TRUE /\ q.pc = "result"
    BY <1>1 DEF Progresses
  <2>2. \A p \in Requests : req'[p] = IF p = r THEN q ELSE req[p]
    BY DEF DiscoveryInv, DiscoveryTyped, Set
  <2>. HIDE DEF q
  <2>3. waiting' = waiting + 1 /\ UNCHANGED <<flights, future>>
    BY <1>3 DEF Join
  <2>4. Waiters' = Waiters \cup {r} /\ r \notin Waiters
    BY <1>1, <2>1, <2>2 DEF Waiters
  <2>5. IsFiniteSet(Waiters') /\ waiting' = Cardinality(Waiters')
    <3>1. IsFiniteSet(Waiters) /\ waiting = Cardinality(Waiters)
      BY DEF LeasesInv, NothingLeaks, Waiters
    <3>2. /\ IsFiniteSet(Waiters \cup {r})
          /\ Cardinality(Waiters \cup {r}) = Cardinality(Waiters) + 1
      BY <2>4, <3>1, FS_AddElement
    <3>. QED BY <2>3, <2>4, <3>1, <3>2
  <2>6. \A p \in Requests : req'[p].pc \in {"start", "reserve"} => ~req'[p].waits
    BY <2>1, <2>2 DEF LeasesInv
  <2>7. \A p \in flights' : req'[p].src = p /\ req'[p].pc # "done"
    BY <1>1, <2>2, <2>3 DEF LeasesInv, NothingLeaks, Owns, On
  <2>. QED BY <2>3, <2>5, <2>6, <2>7 DEF LeasesInv, NothingLeaks, Waiters, Owns, On
<1>4. CASE Own(r)
  <2>. DEFINE q == [req[r] EXCEPT !.src = r, !.pc = "collect"]
  <2>1. q.waits = req[r].waits /\ q.pc = "collect" /\ q.src = r
    BY <1>1 DEF Progresses
  <2>2. \A p \in Requests : req'[p] = IF p = r THEN q ELSE req[p]
    BY <1>4 DEF Own, DiscoveryInv, DiscoveryTyped, Set
  <2>. HIDE DEF q
  <2>3. /\ waiting' = waiting /\ flights' = flights \cup {r}
        /\ future'[r].state = "pending" /\ future'[r].rev = req[r].rev
        /\ \A o \in Requests \ {r} : future'[o] = future[o]
    BY <1>4 DEF Own, DiscoveryInv, DiscoveryTyped, Futures
  <2>4. Waiters' = Waiters
    BY <1>1, <2>1, <2>2 DEF Waiters
  <2>5. \A o \in flights : future[o].rev # req[r].rev
    BY <1>4 DEF Own, Flown
  <2>6. \A o, p \in flights' : future'[o].rev = future'[p].rev => o = p
    BY <1>1, <2>3, <2>5 DEF LeasesInv, NothingLeaks
  <2>7. \A p \in flights' : req'[p].src = p /\ req'[p].pc # "done"
    BY <1>1, <2>1, <2>2, <2>3 DEF LeasesInv, NothingLeaks, Owns, On
  <2>8. \A p \in Requests : req'[p].pc \in {"start", "reserve"} => ~req'[p].waits
    BY <2>1, <2>2 DEF LeasesInv
  <2>9. \A p \in Requests : future'[p].state = "pending" <=> p \in flights'
    BY <2>3 DEF LeasesInv, NothingLeaks
  <2>. QED BY <2>3, <2>4, <2>6, <2>7, <2>8, <2>9 DEF LeasesInv, NothingLeaks, Waiters, Owns, On
<1>. QED BY <1>2, <1>3, <1>4

LEMMA ReleaseLease ==
  ASSUME DiscoveryInv, LeasesInv, NEW r \in Requests, Release(r)
  PROVE  LeasesInv'
<1>. DEFINE q == [Fresh EXCEPT !.pc = "done"]
<1>1. q.waits = FALSE /\ q.pc = "done"
  BY DEF Fresh
<1>2. \A p \in Requests : req'[p] = IF p = r THEN q ELSE req[p]
  BY DEF Release, DiscoveryInv, DiscoveryTyped, Set
<1>. HIDE DEF q
<1>3. Ends(r) /\ flights' = flights \ {r} /\ req[r].waits \in BOOLEAN
  BY FailEnds DEF Release, Fail, DiscoveryInv, DiscoveryTyped, Progresses
<1>4. Waiters' = Waiters \ {r}
  BY <1>1, <1>2 DEF Waiters
<1>5. waiting' = IF r \in Waiters THEN waiting - 1 ELSE waiting
  BY <1>3 DEF Release, Waiters
<1>6. IsFiniteSet(Waiters') /\ waiting' = Cardinality(Waiters')
  <2>1. CASE r \in Waiters
    <3>1. IsFiniteSet(Waiters) /\ waiting = Cardinality(Waiters)
      BY DEF LeasesInv, NothingLeaks, Waiters
    <3>2. IsFiniteSet(Waiters \ {r}) /\ Cardinality(Waiters \ {r}) = Cardinality(Waiters) - 1
      BY <2>1, <3>1, FS_RemoveElement
    <3>. QED BY <1>4, <1>5, <2>1, <3>1, <3>2
  <2>2. CASE r \notin Waiters
    <3>1. Waiters' = Waiters
      BY <1>4, <2>2
    <3>. QED BY <1>5, <2>2, <3>1 DEF LeasesInv, NothingLeaks, Waiters
  <2>. QED BY <2>1, <2>2
<1>7. /\ \A o, p \in flights' : future'[o].rev = future'[p].rev => o = p
      /\ \A p \in Requests : future'[p].state = "pending" <=> p \in flights'
      /\ flights \subseteq Requests
  BY <1>3 DEF LeasesInv, NothingLeaks, Ends, DiscoveryInv, DiscoveryTyped
<1>8. \A p \in flights' : req'[p].src = p /\ req'[p].pc # "done"
  BY <1>2, <1>3, <1>7 DEF LeasesInv, NothingLeaks, Owns, On
<1>9. \A p \in Requests : req'[p].pc \in {"start", "reserve"} => ~req'[p].waits
  BY <1>1, <1>2 DEF LeasesInv
<1>. QED BY <1>6, <1>7, <1>8, <1>9 DEF LeasesInv, NothingLeaks, Waiters, Owns, On

(* The other steps keep the lease and end at most the request's refresh. *)
LEMMA OnwardLease ==
  ASSUME DiscoveryInv, LeasesInv, NEW r \in Requests,
         \/ Ask(r) \/ Bypass(r) \/ Read(r) \/ Collected(r) \/ Result(r) \/ Recheck(r)
         \/ Publish(r) \/ Serve(r) \/ Doubt(r) \/ Final(r) \/ Deadline(r)
  PROVE  LeasesInv'
<1>1. req[r] \in Progresses
  BY DEF DiscoveryInv, DiscoveryTyped
<1>2. Ends(r) /\ waiting' = waiting
  <2>1. CASE Publish(r)
    BY <2>1 DEF Publish, Ends, DiscoveryInv, DiscoveryTyped, Futures
  <2>2. CASE ~Publish(r)
    <3>1. UNCHANGED <<flights, future>> \/ Fail(r)
      BY <2>2 DEF Ask, Bypass, Read, Collected, Result, Recheck, Serve, Doubt, Final, Deadline
    <3>2. waiting' = waiting
      BY <2>2 DEF Ask, Bypass, Read, Collected, Result, Recheck, Serve, Doubt, Final, Deadline
    <3>. QED BY <3>1, <3>2, FailEnds DEF Ends
  <2>. QED BY <2>1, <2>2
<1>3. ASSUME NEW q, Set(r, q), Proceeds(r, q), q.src = req[r].src PROVE LeasesInv'
  BY <1>2, <1>3, LeaseKept
<1>4. CASE Leave(r)
  <2>. DEFINE q == [Fresh EXCEPT !.pc = "release", !.src = req[r].src, !.waits = req[r].waits]
  <2>1. Proceeds(r, q) /\ q.src = req[r].src
    BY DEF Proceeds, Fresh
  <2>. QED BY <1>3, <1>4, <2>1 DEF Leave
<1>5. ASSUME NEW pc, pc \notin {"start", "done", "reserve"}, Then(r, pc) PROVE LeasesInv'
  <2>. DEFINE q == [req[r] EXCEPT !.pc = pc]
  <2>1. Proceeds(r, q) /\ q.src = req[r].src
    BY <1>1, <1>5 DEF Proceeds, Progresses
  <2>. QED BY <1>3, <1>5, <2>1 DEF Then
<1>6. ASSUME NEW k, NEW pc, pc \notin {"start", "done", "reserve"},
             Set(r, [req[r] EXCEPT !.kept = k, !.pc = pc]) PROVE LeasesInv'
  <2>. DEFINE q == [req[r] EXCEPT !.kept = k, !.pc = pc]
  <2>1. Proceeds(r, q) /\ q.src = req[r].src
    BY <1>1, <1>6 DEF Proceeds, Progresses
  <2>. QED BY <1>3, <1>6, <2>1
<1>7. CASE Ask(r) /\ ~Leave(r)
  <2>. DEFINE q == [req[r] EXCEPT !.rev = auth.revision, !.pc = "reserve"]
  <2>1. Proceeds(r, q) /\ q.src = req[r].src
    BY <1>1, <1>7 DEF Proceeds, Progresses, Ask
  <2>. QED BY <1>3, <1>7, <2>1 DEF Ask
<1>8. CASE Read(r)
  <2>. DEFINE g == [req[r] EXCEPT !.left = @ - 1, !.good = @ + 1, !.data = @ \cup {corpus}]
              b == [req[r] EXCEPT !.left = @ - 1]
  <2>1. Proceeds(r, g) /\ g.src = req[r].src /\ Proceeds(r, b) /\ b.src = req[r].src
    BY <1>1, <1>8 DEF Proceeds, Progresses, Read, On
  <2>2. Set(r, g) \/ Set(r, b)
    BY <1>8 DEF Read
  <2>. HIDE DEF g, b
  <2>. QED BY <1>3, <2>1, <2>2
<1>9. CASE Result(r)
  <2>. DEFINE q == [req[r] EXCEPT !.data = future[req[r].src].data, !.pc = "recheck"]
  <2>1. Proceeds(r, q) /\ q.src = req[r].src
    BY <1>1 DEF Proceeds, Progresses
  <2>2. Set(r, q) \/ Then(r, "serve") \/ Then(r, "doubt") \/ Leave(r)
    BY <1>9 DEF Result
  <2>. HIDE DEF q
  <2>3. Then(r, "serve") \/ Then(r, "doubt") => LeasesInv'
    BY <1>5
  <2>. QED BY <1>3, <1>4, <2>1, <2>2, <2>3
<1>10. CASE Collected(r) \/ Publish(r)
  BY <1>4, <1>5, <1>10 DEF Collected, Publish
<1>11. CASE Recheck(r)
  <2>1. \/ Leave(r) \/ Then(r, "doubt")
        \/ \E k, pc : /\ pc \in {"publish", "serve"}
                       /\ Set(r, [req[r] EXCEPT !.kept = k, !.pc = pc])
    BY <1>11 DEF Recheck
  <2>. QED BY <1>4, <1>5, <1>6, <2>1
<1>12. CASE Serve(r) \/ Doubt(r) \/ Final(r)
  <2>1. \/ Leave(r)
        \/ \E k, pc : /\ pc \in {"refill", "release"}
                       /\ Set(r, [req[r] EXCEPT !.kept = k, !.pc = pc])
    BY <1>12 DEF Serve, Doubt, Final
  <2>. QED BY <1>4, <1>6, <2>1
<1>13. CASE Bypass(r) \/ Deadline(r)
  BY <1>4, <1>13 DEF Bypass, Deadline
<1>. QED BY <1>4, <1>7, <1>8, <1>9, <1>10, <1>11, <1>12, <1>13

LEMMA LeaseStands ==
  ASSUME LeasesInv, UNCHANGED <<flights, waiting, future, req>>
  PROVE  LeasesInv'
BY DEF LeasesInv, NothingLeaks, Waiters, Owns, On

LEMMA LeaseStep ==
  ASSUME DiscoveryInv, DiscoveryInv', LeasesInv, [Next]_vars
  PROVE  LeasesInv'
<1>1. CASE UNCHANGED discoveryVars \/ UNCHANGED vars
  BY <1>1, LeaseStands DEF vars, discoveryVars
<1>2. ASSUME NEW r \in Requests, Progress(r) \/ Deadline(r) PROVE LeasesInv'
  BY <1>2, ReserveLease, ReleaseLease, OnwardLease DEF Progress
<1>3. ASSUME NEW r \in Requests, Age(r) PROVE LeasesInv'
  BY <1>3, LeaseStands DEF Age
<1>. QED BY <1>1, <1>2, <1>3 DEF Next, DiscoveryNext

----------------------------------------------------------------------------
Inv == AuthorityInv /\ DiscoveryInv

LEMMA InitInv == Init => Inv
BY AuthorityInitially, DiscoveryInitially DEF Init, Inv

LEMMA NextInv == Inv /\ [Next]_vars => Inv'
<1>. SUFFICES ASSUME Inv, [Next]_vars PROVE Inv'
  OBVIOUS
<1>1. CASE AuthorityNext /\ UNCHANGED discoveryVars
  BY <1>1, AuthorityKeeps, AuthorityHarmless DEF Inv
<1>2. CASE DiscoveryNext /\ UNCHANGED authorityVars
  <2>1. AuthorityInv'
    BY <1>2 DEF Inv, AuthorityInv, AuthorityTyped, Readable, Writable, Legible, Working,
                authorityVars
  <2>. QED BY <1>2, <2>1, RequestInvKept DEF Inv
<1>3. CASE UNCHANGED vars
  BY <1>3 DEF Inv, vars, authorityVars, discoveryVars, AuthorityInv, AuthorityTyped,
              Readable, Writable, Legible, Working, DiscoveryInv, DiscoveryTyped,
              FutureInv, RequestInv, Same, Holding, On, Owns
<1>. QED BY <1>1, <1>2, <1>3 DEF Next

LEMMA InvHolds == Spec => []Inv
BY InitInv, NextInv, PTL DEF Spec

(* The authority answers READY only over a collection at rest: every       *)
(* operation begun and not proven completed keeps its token in the record  *)
(* (CorpusRevisionAuthority.begin, finish).                                *)
THEOREM ReadyTheorem == Spec => []ReadyMeansQuiet
<1>1. Inv => ReadyMeansQuiet
  BY InvQuiet DEF Inv
<1>. QED BY <1>1, InvHolds, PTL

(* A cached pool of the revision in force is the collection as it is now   *)
(* (SharedDiscoveryCache.publish under _complete_discovery's checks).      *)
THEOREM PoolsTheorem == Spec => []PoolsCurrent
<1>1. Inv => PoolsCurrent
  BY InvCurrent DEF Inv
<1>. QED BY <1>1, InvHolds, PTL

(* No pool is accepted across a transition of the collection: a request    *)
(* uses a shared pool, or holds one over a refill, only if every point in  *)
(* it is from the collection of that moment (_complete_discovery).         *)
THEOREM AcceptedTheorem == Spec => AcceptedCurrent
<1>. DEFINE A == \A r \in Requests : ~req[r].kept /\ req'[r].kept => req[r].data = {corpus}
<1>1. Inv /\ [Next]_vars => [A]_vars
  <2>. SUFFICES ASSUME Inv, Next PROVE A
    OBVIOUS
  <2>1. CASE UNCHANGED discoveryVars
    BY <2>1 DEF discoveryVars
  <2>2. CASE DiscoveryNext
    BY <2>2, Accepting DEF Inv, DiscoveryNext
  <2>. QED BY <2>1, <2>2 DEF Next
<1>. QED BY <1>1, InvHolds, PTL DEF Spec, AcceptedCurrent

(* The cache leaks nothing: waiters are counted exactly, a revision is     *)
(* refreshed by one request at a time, and its owner will still end it,    *)
(* whatever deadline or failure comes first (SharedDiscoveryCache.release).*)
THEOREM LeasesTheorem == Spec => []NothingLeaks
<1>1. Init => Inv /\ LeasesInv
  BY InitInv, LeaseInitially
<1>2. Inv /\ LeasesInv /\ [Next]_vars => (Inv /\ LeasesInv)'
  BY NextInv, LeaseStep DEF Inv
<1>3. LeasesInv => NothingLeaks
  BY DEF LeasesInv
<1>. QED BY <1>1, <1>2, <1>3, PTL DEF Spec

-----------------------------------------------------------------------------
(* One recommendation *)

PassSpec == PassInit /\ [][PassNext]_passVars

Snapshots == [Repos -> Nat]
ChannelReads == [state : {"unsent", "sent", "read", "failed"}, limit : Int, without : SUBSET Repos, got : Snapshots]
PassStages == {"prepare", "profile", "semantic", "discovery", "refill", "social", "fuse", "hydrate", "rank", "fallback",
               "done", "failed"}
Passes ==
  [pc : PassStages, mode : Modes, asked : SUBSET Repos, dislikes : SUBSET Repos, excluded : SUBSET Repos,
   vector : BOOLEAN, lookup : {"unsent", "sent", "read", "failed"}, left : Nat, round : Int, skipped : SUBSET Repos,
   good : Int, lease : {"none", "owner", "pool", "partial"}, under : Nat]

PassTyped ==
  /\ points \in [Repos -> [v : Nat \ {0}, ok : BOOLEAN]] /\ revision \in Nat
  /\ pass \in Passes /\ channel \in [Searches -> ChannelReads]
  /\ seen \in [Repos -> Int] /\ conflicts \subseteq Repos
  /\ semantic \in Snapshots /\ discovery \in Snapshots /\ held \in Snapshots /\ social \in [Repos -> Int]
  /\ retained \subseteq Repos

Early == {"prepare", "profile", "semantic", "discovery", "refill"}

\* Before the plan nothing was read, and only a refill holds a pool.
NothingYet ==
  /\ pass.pc \in {"prepare", "profile"} => seen = None /\ semantic = None /\ discovery = None
  /\ pass.pc \in {"prepare", "profile", "semantic", "discovery"} \/ pass.mode.inline => held = None
  /\ pass.pc = "prepare" \/ (pass.pc = "profile" /\ pass.mode.inline) => channel = [c \in Searches |-> Unsent]
  /\ ~pass.mode.inline => conflicts = {} /\ seen \in Snapshots
  /\ pass.mode.inline => pass.lease = "none"
  /\ pass.under <= revision
  /\ pass.pc \in {"fuse", "hydrate", "rank", "fallback", "done"} => pass.lookup # "sent"

\* What the request knows to be excluded.
ExclusionsKnown ==
  /\ pass.asked \subseteq pass.excluded
  /\ pass.pc \notin {"prepare", "profile", "failed"} => pass.dislikes \subseteq pass.excluded
  /\ pass.pc = "prepare" /\ pass.mode.inline => pass.dislikes \subseteq pass.excluded

\* What was read under an unchanged revision is the collection of now.
FreshUnder ==
  pass.pc \in Early /\ revision = pass.under =>
    /\ \A r \in Repos :
         {seen[r], semantic[r], discovery[r], held[r]} \subseteq {0, points[r].v}
    /\ \A c \in Searches : \A r \in Repos : channel[c].got[r] \in {0, points[r].v}

\* The memo is what the sources hold, but for observed conflicts.
MemoKept ==
  pass.pc \in Early =>
    \A r \in Repos \ conflicts : semantic[r] \in {0, seen[r]} /\ discovery[r] \in {0, seen[r]}

Agree(r) == semantic[r] = 0 \/ discovery[r] = 0 \/ semantic[r] = discovery[r]
Whole == pass.lease # "partial"

SourcesAgree ==
  /\ pass.pc \in {"social", "fuse"} /\ Whole => \A r \in Repos \ conflicts : Agree(r)
  /\ pass.pc = "fuse" => \A r \in Repos : social[r] >= 0 /\ (social[r] = 0 \/ Metadata[r] \in {0, social[r]})
  /\ pass.pc \in {"hydrate", "rank", "fallback", "done"} /\ Whole =>
       \A r \in retained : Cardinality(Contributions(r)) = 1

PassInv ==
  /\ PassTyped /\ NothingYet /\ ExclusionsKnown /\ FreshUnder /\ MemoKept /\ SourcesAgree
  /\ pass.pc = "done" => retained \cap pass.excluded = {} /\ (pass.mode.required => pass.good = 1)

-----------------------------------------------------------------------------
(* Numbers, snapshots and reads *)

LEMMA Sizes ==
  /\ \A S \in SUBSET Repos : Cardinality(S) \in Nat
  /\ \A S \in SUBSET Searches : Cardinality(S) \in Nat
<1>1. \A S \in SUBSET Repos : IsFiniteSet(S) BY PassAssumption, FS_Subset
<1>2. \A S \in SUBSET Searches : IsFiniteSet(S) BY PassAssumption, FS_Subset
<1> QED BY <1>1, <1>2, FS_CardinalityType

LEMMA Bounds == {Limit, SemanticTarget, PerChannel, MaxCandidates, Reads, Rounds} \subseteq Nat
BY PassAssumption

LEMMA Less == ASSUME NEW n \in Int, NEW m \in Nat PROVE AtMost(n, m) \in Int /\ m - AtMost(n, m) \in Nat
BY DEF AtMost

LEMMA SpentLess ==
  ASSUME pass.left \in Nat, NEW chosen \in SUBSET Searches
  PROVE  pass.left - Spent(chosen) \in Nat
<1>1. PerChannel * Cardinality(chosen) \in Int BY Sizes, Bounds
<1> QED BY <1>1, Less DEF Spent

LEMMA NoneTyped == None \in Snapshots /\ \A r \in Repos : None[r] = 0
BY DEF None, Snapshots

LEMMA OverAt ==
  ASSUME NEW f, NEW g
  PROVE  /\ \A r \in Repos : Over(f, g)[r] = IF f[r] # 0 THEN f[r] ELSE g[r]
         /\ DOMAIN Over(f, g) = Repos
         /\ f \in Snapshots /\ g \in Snapshots => Over(f, g) \in Snapshots
         /\ f \in [Repos -> Int] /\ g \in [Repos -> Int] => Over(f, g) \in [Repos -> Int]
BY DEF Over, Snapshots

LEMMA WithoutAt ==
  ASSUME NEW got \in Snapshots, NEW repos
  PROVE  /\ Without(got, repos) \in Snapshots
         /\ \A r \in Repos : Without(got, repos)[r] \in {0, got[r]}
BY DEF Without, Snapshots

LEMMA VersionsAt ==
  ASSUME PassTyped, NEW repos
  PROVE  /\ Versions(repos) \in Snapshots
         /\ \A r \in Repos : Versions(repos)[r] \in {0, points[r].v}
BY DEF Versions, Snapshots, PassTyped

LEMMA UnsentTyped == Unsent \in ChannelReads /\ Unsent.got = None /\ Unsent.state = "unsent"
BY NoneTyped DEF Unsent, ChannelReads

LEMMA SentTyped ==
  ASSUME pass.left \in Nat, NEW without \in SUBSET Repos, NEW chosen \in SUBSET Searches
  PROVE  /\ Sent(without, chosen) \in [Searches -> ChannelReads]
         /\ \A c \in Searches : Sent(without, chosen)[c].got = None
<1> DEFINE room(c) == pass.left - PerChannel * Cardinality({d \in chosen : d < c})
           one(c) == IF c \in chosen /\ room(c) > 0
                     THEN [Unsent EXCEPT !.state = "sent", !.limit = AtMost(PerChannel, room(c)), !.without = without]
                     ELSE Unsent
<1>1. ASSUME NEW c \in Searches PROVE one(c) \in ChannelReads /\ one(c).got = None
  <2>1. {d \in chosen : d < c} \in SUBSET Searches OBVIOUS
  <2>2. Cardinality({d \in chosen : d < c}) \in Nat BY <2>1, Sizes
  <2>3. room(c) \in Int BY <2>2, Bounds
  <2>4. AtMost(PerChannel, room(c)) \in Int BY <2>3, Bounds DEF AtMost
  <2> HIDE DEF room
  <2> QED BY <2>4, UnsentTyped, NoneTyped DEF ChannelReads, Unsent
<1>2. Sent(without, chosen) = [c \in Searches |-> one(c)] BY DEF Sent
<1> HIDE DEF one
<1> QED BY <1>1, <1>2

(* The first of the channels that have an observation is one of them.      *)
LEMMA MinIn == ASSUME NEW S \in SUBSET Nat, S # {} PROVE Min(S) \in S
<1>1. IsWellFoundedOn(OpToRel(<, Nat), Nat) BY NatLessThanWellFounded
<1>2. PICK x \in S : \A y \in S : ~(<<y, x>> \in OpToRel(<, Nat)) BY <1>1, WFMin
<1>3. \A y \in S : x <= y
  <2> TAKE y \in S
  <2>1. <<y, x>> \notin OpToRel(<, Nat) BY <1>2
  <2>2. ~(y < x) BY <2>1 DEF OpToRel
  <2> QED BY <2>2
<1> QED BY <1>3 DEF Min

LEMMA MergedAt ==
  ASSUME PassTyped
  PROVE  /\ Merged \in Snapshots
         /\ \A r \in Repos : Merged[r] = 0 \/ \E c \in Succeeded : Merged[r] = channel[c].got[r]
<1> DEFINE having(r) == {c \in Succeeded : channel[c].got[r] # 0}
<1>1. \A r \in Repos : having(r) # {} => Min(having(r)) \in Succeeded
  <2>1. \A r \in Repos : having(r) \in SUBSET Nat BY PassAssumption DEF Succeeded
  <2>2. \A r \in Repos : having(r) # {} => Min(having(r)) \in having(r) BY <2>1, MinIn
  <2> QED BY <2>2
<1>2. Merged = [r \in Repos |-> IF having(r) = {} THEN 0 ELSE channel[Min(having(r))].got[r]] BY DEF Merged
<1>3. \A c \in Succeeded : channel[c].got \in [Repos -> Nat]
  BY DEF Succeeded, PassTyped, ChannelReads, Snapshots
<1> HIDE DEF having
<1>4. \A r \in Repos : Merged[r] = 0 \/ \E c \in Succeeded : Merged[r] = channel[c].got[r] BY <1>1, <1>2
<1>5. \A r \in Repos : Merged[r] \in Nat BY <1>3, <1>4
<1> QED BY <1>2, <1>4, <1>5 DEF Snapshots

-----------------------------------------------------------------------------
(* Steps of a request *)

LEMMA ModesTyped == \A m \in Modes : {m.heavy, m.required, m.inline, m.injects, m.shared} \subseteq BOOLEAN
BY DEF Modes

LEMMA InlineAlone == \A m \in Modes : m.inline => m.heavy /\ m.required /\ ~m.shared
BY DEF Modes

(* A request that fails serves nothing.                                    *)
LEMMA FailedKeeps ==
  ASSUME PassInv, PassTyped', PassGoes("failed"), UNCHANGED <<points, revision>>,
         pass.mode.inline => held' = None, ~pass.mode.inline => conflicts' = {} /\ seen' \in Snapshots
  PROVE  PassInv'
<1>1. /\ pass'.pc = "failed" /\ pass'.mode = pass.mode /\ pass'.asked = pass.asked /\ pass'.lease = pass.lease
      /\ pass'.excluded = pass.excluded /\ pass'.under = pass.under
  BY DEF PassInv, PassTyped, PassGoes, Passes
<1>2. NothingYet' BY <1>1 DEF PassInv, NothingYet, PassTyped, PassGoes
<1>3. ExclusionsKnown' BY <1>1 DEF PassInv, ExclusionsKnown
<1>4. FreshUnder' /\ MemoKept' /\ SourcesAgree' BY <1>1 DEF FreshUnder, MemoKept, SourcesAgree, Early
<1> QED BY <1>1, <1>2, <1>3, <1>4 DEF PassInv

LEMMA ChangeKeeps == ASSUME PassInv, NEW r \in Repos, Change(r) PROVE PassInv'
<1>1. PassTyped'
  <2>1. points[r] \in [v : Nat \ {0}, ok : BOOLEAN] BY DEF PassInv, PassTyped
  <2>2. points[r].v \in Nat \ {0} BY <2>1
  <2>3. points[r].v + 1 \in Nat \ {0} BY <2>2
  <2>4. PICK ok \in BOOLEAN : points' = [points EXCEPT ![r] = [v |-> points[r].v + 1, ok |-> ok]] BY DEF Change
  <2>5. points' \in [Repos -> [v : Nat \ {0}, ok : BOOLEAN]] BY <2>3, <2>4 DEF PassInv, PassTyped
  <2>6. revision' \in Nat BY DEF PassInv, PassTyped, Change
  <2> QED BY <2>5, <2>6 DEF PassInv, PassTyped, Change, sources
<1>2. pass' = pass /\ revision' = revision + 1 /\ revision' # pass'.under /\ pass'.under <= revision'
  <2>1. pass.under \in Nat /\ revision \in Nat BY DEF PassInv, PassTyped, Passes
  <2> QED BY <2>1 DEF PassInv, NothingYet, Change
<1>3. UNCHANGED <<pass, channel, seen, conflicts, semantic, discovery, social, held, retained>>
  BY DEF Change, sources
<1>4. NothingYet' BY <1>2, <1>3 DEF PassInv, NothingYet
<1>5. FreshUnder' BY <1>2 DEF FreshUnder
<1>6. ExclusionsKnown' /\ MemoKept' /\ SourcesAgree'
  BY <1>3 DEF PassInv, ExclusionsKnown, MemoKept, SourcesAgree, Agree, Metadata, Over, Contributions, Whole
<1> QED BY <1>1, <1>3, <1>4, <1>5, <1>6 DEF PassInv

LEMMA RaiseKeeps == ASSUME PassInv, Raise PROVE PassInv'
<1>1. pass' \in Passes BY DEF PassInv, PassTyped, Raise, PassGoes, Passes, PassStages
<1>2. PassTyped'
  BY <1>1, UnsentTyped, NoneTyped DEF PassInv, PassTyped, Raise, Snapshots
<1> QED BY <1>2, FailedKeeps, NoneTyped DEF Raise

LEMMA ProfileKeeps == ASSUME PassInv, Profile PROVE PassInv'
<1>1. PICK vector \in BOOLEAN :
        pass' = [pass EXCEPT !.vector = vector, !.excluded = @ \cup pass.dislikes,
                            !.pc = IF pass.mode.inline THEN (IF vector THEN "prepare" ELSE "failed")
                                   ELSE IF pass.mode.required /\ ~pass.mode.heavy THEN "failed"
                                   ELSE IF vector THEN "semantic" ELSE "discovery"]
  BY DEF Profile
<1>2. /\ pass'.mode = pass.mode /\ pass'.asked = pass.asked /\ pass'.lease = pass.lease
      /\ pass'.excluded = pass.excluded \cup pass.dislikes /\ pass'.under = pass.under /\ pass'.dislikes = pass.dislikes
      /\ pass'.lookup = pass.lookup
      /\ pass'.pc \in {"prepare", "failed", "semantic", "discovery"} /\ (pass'.pc = "prepare" => pass.mode.inline)
  BY <1>1 DEF PassInv, PassTyped, Passes
<1>3. pass' \in Passes BY <1>1 DEF PassInv, PassTyped, Passes, PassStages
<1>4. pass.pc = "profile" /\ UNCHANGED <<points, revision, channel, seen, conflicts, semantic, discovery, social, held, retained>>
  BY DEF Profile, sources
<1>5. PassTyped' BY <1>3, <1>4 DEF PassInv, PassTyped
<1>6. NothingYet' BY <1>2, <1>4 DEF PassInv, NothingYet
<1>7. ExclusionsKnown' BY <1>2, <1>4 DEF PassInv, ExclusionsKnown
<1>8. FreshUnder' /\ MemoKept' BY <1>2, <1>4 DEF PassInv, FreshUnder, MemoKept, Early
<1>9. SourcesAgree' BY <1>2 DEF SourcesAgree
<1> QED BY <1>2, <1>5, <1>6, <1>7, <1>8, <1>9 DEF PassInv

LEMMA PrepareKeeps == ASSUME PassInv, Prepare PROVE PassInv'
<1>1. PICK lease \in (IF pass.mode.shared THEN {"none", "owner", "pool"} ELSE {"none"}) :
        /\ channel' = IF lease = "pool" THEN channel
                      ELSE Sent(IF lease = "none" THEN pass.excluded ELSE {}, Searches)
        /\ pass' = [pass EXCEPT !.lease = lease, !.under = revision,
                                !.left = IF lease = "pool" THEN @ ELSE @ - Spent(Searches),
                                !.pc = IF pass.mode.inline THEN "semantic" ELSE "profile"]
  BY DEF Prepare
<1>2. /\ pass.pc = "prepare" /\ pass \in Passes /\ pass.mode \in Modes /\ pass.left \in Nat /\ revision \in Nat
      /\ pass.excluded \in SUBSET Repos
      /\ UNCHANGED <<points, revision, seen, conflicts, semantic, discovery, social, held, retained>>
  BY DEF PassInv, PassTyped, Passes, Prepare, sources
<1>3. /\ pass'.mode = pass.mode /\ pass'.asked = pass.asked /\ pass'.lease = lease /\ pass'.lookup = pass.lookup
      /\ pass'.excluded = pass.excluded /\ pass'.under = revision /\ pass'.dislikes = pass.dislikes
      /\ pass'.pc = IF pass.mode.inline THEN "semantic" ELSE "profile"
  BY <1>1, <1>2 DEF Passes
<1>4. pass' \in Passes
  <2>1. pass.left - Spent(Searches) \in Nat BY <1>2, SpentLess
  <2>2. (IF lease = "pool" THEN pass.left ELSE pass.left - Spent(Searches)) \in Nat BY <2>1, <1>2
  <2>3. lease \in {"none", "owner", "pool", "partial"} BY <1>1
  <2> QED BY <1>1, <1>2, <2>2, <2>3 DEF Passes, PassStages
<1>5. channel' \in [Searches -> ChannelReads] /\ \A c \in Searches : channel'[c].got = None
  <2>1. channel = [c \in Searches |-> Unsent] BY <1>2 DEF PassInv, NothingYet
  <2>2. \A without \in SUBSET Repos :
          /\ Sent(without, Searches) \in [Searches -> ChannelReads]
          /\ \A c \in Searches : Sent(without, Searches)[c].got = None
    BY <1>2, SentTyped
  <2> QED BY <1>1, <1>2, <2>1, <2>2, UnsentTyped
<1>6. PassTyped' BY <1>2, <1>4, <1>5 DEF PassInv, PassTyped
<1>7. pass.mode.inline => lease = "none" BY <1>1, <1>2, InlineAlone
<1>8. NothingYet' BY <1>2, <1>3, <1>7 DEF PassInv, NothingYet
<1>9. ExclusionsKnown' BY <1>2, <1>3 DEF PassInv, ExclusionsKnown
<1>10. seen = None /\ semantic = None /\ discovery = None /\ held = None BY <1>2 DEF PassInv, NothingYet
<1>11. FreshUnder'
  BY <1>2, <1>5, <1>10, NoneTyped DEF FreshUnder
<1>12. MemoKept' BY <1>2, <1>10, NoneTyped DEF MemoKept
<1>13. SourcesAgree' BY <1>3 DEF SourcesAgree
<1> QED BY <1>3, <1>6, <1>8, <1>9, <1>11, <1>12, <1>13 DEF PassInv

LEMMA ReadChannelKeeps == ASSUME PassInv, NEW c \in Searches, ReadChannel(c) PROVE PassInv'
<1>1. /\ channel[c].state = "sent" /\ channel \in [Searches -> ChannelReads]
      /\ UNCHANGED <<points, revision, pass, seen, conflicts, semantic, discovery, social, held, retained>>
  BY DEF PassInv, PassTyped, ReadChannel, sources
<1>2. PICK one \in ChannelReads : channel' = [channel EXCEPT ![c] = one] /\ \A r \in Repos : one.got[r] \in {0, points[r].v}
  <2>1. CASE channel' = [channel EXCEPT ![c] = [Unsent EXCEPT !.state = "failed"]]
    <3>1. [Unsent EXCEPT !.state = "failed"] \in ChannelReads BY UnsentTyped DEF ChannelReads
    <3>2. [Unsent EXCEPT !.state = "failed"].got = None BY UnsentTyped DEF ChannelReads
    <3>3. \A r \in Repos : [Unsent EXCEPT !.state = "failed"].got[r] \in {0, points[r].v} BY <3>2, NoneTyped
    <3> QED BY <2>1, <3>1, <3>3
  <2>2. ASSUME NEW s, channel' = [channel EXCEPT ![c].state = "read", ![c].got = Versions(s)]
        PROVE  \E one \in ChannelReads : channel' = [channel EXCEPT ![c] = one] /\ \A r \in Repos : one.got[r] \in {0, points[r].v}
    <3> DEFINE one == [channel[c] EXCEPT !.state = "read", !.got = Versions(s)]
    <3>1. channel' = [channel EXCEPT ![c] = one] BY <1>1, <2>2
    <3>2. one \in ChannelReads BY <1>1, VersionsAt DEF ChannelReads, PassInv
    <3>3. one.got = Versions(s) BY <1>1 DEF ChannelReads
    <3>4. \A r \in Repos : one.got[r] \in {0, points[r].v} BY <3>3, VersionsAt DEF PassInv
    <3> QED BY <3>1, <3>2, <3>4
  <2> QED BY <2>1, <2>2 DEF ReadChannel
<1>3. PassTyped' BY <1>1, <1>2 DEF PassInv, PassTyped
<1>4. NothingYet' BY <1>1, UnsentTyped DEF PassInv, NothingYet
<1>5. FreshUnder' BY <1>1, <1>2 DEF PassInv, FreshUnder
<1>6. ExclusionsKnown' /\ MemoKept' /\ SourcesAgree'
  BY <1>1 DEF PassInv, ExclusionsKnown, MemoKept, SourcesAgree, Agree, Metadata, Over, Contributions, Whole
<1> QED BY <1>1, <1>3, <1>4, <1>5, <1>6 DEF PassInv

LEMMA ReadSocialKeeps == ASSUME PassInv, ReadSocial PROVE PassInv'
<1>1. /\ pass \in Passes /\ pass.lookup = "sent" /\ Running
      /\ UNCHANGED <<points, revision, channel, seen, conflicts, semantic, discovery, held, retained>>
  BY DEF PassInv, PassTyped, ReadSocial
<1>2. \E state \in {"failed", "read"} : pass' = [pass EXCEPT !.lookup = state] BY DEF ReadSocial
<1>3. /\ pass' \in Passes /\ pass'.pc = pass.pc /\ pass'.mode = pass.mode /\ pass'.asked = pass.asked
      /\ pass'.excluded = pass.excluded /\ pass'.dislikes = pass.dislikes /\ pass'.lease = pass.lease
      /\ pass'.under = pass.under /\ pass'.good = pass.good /\ pass'.lookup # "sent"
  BY <1>1, <1>2 DEF Passes
<1>4. social' \in [Repos -> Int]
  <2>1. \A r \in Repos : points[r].v \in Int BY DEF PassInv, PassTyped
  <2>2. \A r \in Repos : -points[r].v \in Int BY <2>1
  <2>3. social \in [Repos -> Int] BY DEF PassInv, PassTyped
  <2> QED BY <2>1, <2>2, <2>3 DEF ReadSocial
<1>5. PassTyped' BY <1>1, <1>3, <1>4 DEF PassInv, PassTyped
<1>6. pass.pc \notin {"fuse", "hydrate", "rank", "fallback", "done"} BY <1>1 DEF PassInv, NothingYet
<1>7. NothingYet' BY <1>1, <1>3 DEF PassInv, NothingYet
<1>8. ExclusionsKnown' BY <1>3 DEF PassInv, ExclusionsKnown
<1>9. FreshUnder' /\ MemoKept' BY <1>1, <1>3 DEF PassInv, FreshUnder, MemoKept
<1>10. SourcesAgree' BY <1>1, <1>3, <1>6 DEF PassInv, SourcesAgree, Agree, Whole
<1> QED BY <1>3, <1>5, <1>6, <1>7, <1>8, <1>9, <1>10 DEF PassInv

-----------------------------------------------------------------------------
(* What a read adds to the memo                                            *)

(* Under an unchanged revision, the memo and what is taken are current.    *)
LEMMA TakenFresh ==
  ASSUME PassTyped, NEW got \in Snapshots, NEW r \in Repos, seen[r] \in {0, points[r].v}, got[r] \in {0, points[r].v}
  PROVE  Over(seen, got)[r] \in {0, points[r].v} /\ Taken(got)[r] \in {0, points[r].v}
BY OverAt DEF Taken

LEMMA TakenTyped == ASSUME PassInv, NEW got \in Snapshots PROVE Taken(got) \in Snapshots
<1>1. ~pass.mode.inline => \A r \in Repos : Over(seen, got)[r] \in Nat
  BY OverAt DEF PassInv, NothingYet, Snapshots
<1> QED BY <1>1 DEF Taken, Snapshots

(* What a source holds stays in the memo, and what it takes enters it,     *)
(* unless the request has observed it in two snapshots.                    *)
LEMMA MemoGrows ==
  ASSUME PassTyped, NEW got \in Snapshots, NEW all, Observe(got, all), NEW r \in Repos \ conflicts',
         pass.mode.inline => got[r] = 0 \/ \E o \in all : o[r] = got[r]
  PROVE  /\ r \notin conflicts
         /\ \A n : n \in {0, seen[r]} => n \in {0, seen'[r]}
         /\ Taken(got)[r] \in {0, seen'[r]}
<1>1. seen'[r] = IF seen[r] # 0 THEN seen[r] ELSE got[r] BY OverAt DEF Observe
<1>2. r \notin conflicts BY DEF Observe
<1>3. CASE pass.mode.inline
  <2>1. got[r] = 0 \/ got[r] = seen'[r] BY <1>3 DEF Observe
  <2> QED BY <1>1, <1>2, <1>3, <2>1 DEF Taken
<1>4. CASE ~pass.mode.inline
  <2>1. Taken(got)[r] = IF got[r] = 0 THEN 0 ELSE Over(seen, got)[r] BY <1>4 DEF Taken
  <2>2. Over(seen, got)[r] = seen'[r] BY DEF Observe
  <2> QED BY <1>1, <1>2, <2>1, <2>2
<1> QED BY <1>3, <1>4

LEMMA ObserveTyped ==
  ASSUME PassInv, NEW got \in [Repos -> Int], NEW all, Observe(got, all)
  PROVE  /\ seen' \in [Repos -> Int] /\ conflicts' \subseteq Repos
         /\ ~pass.mode.inline => conflicts' = {} /\ (got \in Snapshots => seen' \in Snapshots)
<1>1. seen \in [Repos -> Int] /\ conflicts \subseteq Repos BY DEF PassInv, PassTyped
<1>2. seen' \in [Repos -> Int] BY <1>1, OverAt DEF Observe
<1>3. ~pass.mode.inline => conflicts = {} /\ seen \in Snapshots BY DEF PassInv, NothingYet
<1>4. ~pass.mode.inline /\ got \in Snapshots => seen' \in Snapshots BY <1>3, OverAt DEF Observe
<1> QED BY <1>1, <1>2, <1>3, <1>4 DEF Observe

-----------------------------------------------------------------------------
(* How discovery ends                                                      *)

LEMMA DiscoveredKeeps ==
  ASSUME PassInv, pass.pc \in {"discovery", "refill"},
         NEW found \in Snapshots, NEW lease \in {"none", "owner", "pool", "partial"}, Discovered(found, lease),
         UNCHANGED <<points, revision, semantic, social, retained>>,
         seen' \in [Repos -> Int], conflicts' \subseteq Repos,
         ~pass.mode.inline => conflicts' = {} /\ seen' \in Snapshots,
         pass.mode.inline => lease = "none",
         lease # "partial" => \A r \in Repos \ conflicts' : semantic[r] = 0 \/ found[r] = 0 \/ semantic[r] = found[r]
  PROVE  PassInv'
<1>1. pass' = [pass EXCEPT !.pc = "social", !.round = 1, !.skipped = {}, !.good = 0, !.lease = lease, !.under = 0]
  BY DEF Discovered
<1>2. pass \in Passes /\ revision \in Nat BY DEF PassInv, PassTyped
<1>3. /\ pass'.pc = "social" /\ pass'.mode = pass.mode /\ pass'.asked = pass.asked /\ pass'.lease = lease
      /\ pass'.excluded = pass.excluded /\ pass'.under = 0 /\ pass'.dislikes = pass.dislikes
  BY <1>1, <1>2 DEF Passes
<1>4. pass' \in Passes
  <2>1. "social" \in PassStages /\ {} \in SUBSET Repos /\ 0 \in Nat /\ 1 \in Int /\ 0 \in Int BY DEF PassStages
  <2> QED BY <1>1, <1>2, <2>1 DEF Passes
<1>5. held' = None /\ discovery' = found /\ channel' = [c \in Searches |-> Unsent] BY DEF Discovered
<1>6. PassTyped' BY <1>4, <1>5, UnsentTyped, NoneTyped DEF PassInv, PassTyped
<1>7. NothingYet' BY <1>2, <1>3, <1>5 DEF NothingYet
<1>8. ExclusionsKnown' BY <1>3 DEF PassInv, ExclusionsKnown
<1>9. FreshUnder' /\ MemoKept' BY <1>3 DEF FreshUnder, MemoKept, Early
<1>10. SourcesAgree' BY <1>3, <1>5 DEF SourcesAgree, Agree, Whole
<1> QED BY <1>3, <1>6, <1>7, <1>8, <1>9, <1>10 DEF PassInv

LEMMA NothingFoundKeeps ==
  ASSUME PassInv, pass.pc \in {"discovery", "refill"}, NothingFound,
         UNCHANGED <<points, revision, semantic, social, retained>>,
         seen' \in [Repos -> Int], conflicts' \subseteq Repos,
         ~pass.mode.inline => conflicts' = {} /\ seen' \in Snapshots
  PROVE  PassInv'
<1>1. CASE PassGoes("failed") /\ UNCHANGED <<channel, discovery, held>>
  <2>1. pass' \in Passes BY <1>1 DEF PassInv, PassTyped, PassGoes, Passes, PassStages
  <2>2. PassTyped' BY <1>1, <2>1 DEF PassInv, PassTyped
  <2>3. pass.mode.inline => held' = None BY <1>1 DEF PassInv, NothingYet
  <2> QED BY <1>1, <2>2, <2>3, FailedKeeps
<1>2. CASE Discovered(None, pass.lease)
  <2>1. pass.lease \in {"none", "owner", "pool", "partial"} BY DEF PassInv, PassTyped, Passes
  <2>2. pass.mode.inline => pass.lease = "none" BY DEF PassInv, NothingYet
  <2>3. \A r \in Repos \ conflicts' : None[r] = 0 BY NoneTyped
  <2> QED BY <1>2, <2>1, <2>2, <2>3, NoneTyped, DiscoveredKeeps
<1> QED BY <1>1, <1>2 DEF NothingFound

LEMMA RefillKeeps ==
  ASSUME PassInv, pass.pc = "discovery", ~pass.mode.inline,
         NEW memo \in Snapshots, NEW without \in SUBSET Repos, Refill(memo, without),
         UNCHANGED <<points, revision, seen, conflicts, semantic, discovery, social, retained>>,
         PoolCurrent => \A r \in Repos : memo[r] \in {0, points[r].v}
  PROVE  PassInv'
<1> DEFINE left == pass.excluded \cup without
<1>1. /\ held' = memo /\ channel' = Sent(left, Searches)
      /\ pass' = [pass EXCEPT !.pc = "refill", !.left = @ - Spent(Searches), !.skipped = without]
  BY DEF Refill
<1>2. pass \in Passes /\ pass.left \in Nat /\ left \in SUBSET Repos BY DEF PassInv, PassTyped, Passes
<1> HIDE DEF left
<1>3. pass.left - Spent(Searches) \in Nat BY <1>2, SpentLess
<1>4. pass' \in Passes BY <1>1, <1>2, <1>3 DEF Passes, PassStages
<1>5. /\ pass'.pc = "refill" /\ pass'.mode = pass.mode /\ pass'.asked = pass.asked /\ pass'.lease = pass.lease
      /\ pass'.excluded = pass.excluded /\ pass'.under = pass.under /\ pass'.dislikes = pass.dislikes
  BY <1>1, <1>2 DEF Passes
<1>6. channel' \in [Searches -> ChannelReads] /\ \A c \in Searches : channel'[c].got = None
  BY <1>1, <1>2, SentTyped
<1>7. PassTyped' BY <1>1, <1>4, <1>6 DEF PassInv, PassTyped
<1>8. NothingYet' BY <1>5 DEF PassInv, NothingYet
<1>9. ExclusionsKnown' BY <1>5 DEF PassInv, ExclusionsKnown
<1>10. FreshUnder' BY <1>1, <1>5, <1>6, NoneTyped DEF PassInv, FreshUnder, Early, PoolCurrent
<1>11. MemoKept' BY <1>5 DEF PassInv, MemoKept, Early
<1>12. SourcesAgree' BY <1>5 DEF SourcesAgree
<1> QED BY <1>5, <1>7, <1>8, <1>9, <1>10, <1>11, <1>12 DEF PassInv

(* Under an unchanged revision, what was read agrees.                      *)
LEMMA FreshAgree ==
  ASSUME PassInv, PoolCurrent, pass.pc \in {"discovery", "refill"}, NEW found,
         \A r \in Repos : found[r] \in {0, points[r].v}
  PROVE  \A r \in Repos : semantic[r] = 0 \/ found[r] = 0 \/ semantic[r] = found[r]
BY DEF PassInv, FreshUnder, PoolCurrent, Early

LEMMA MergedFresh ==
  ASSUME PassInv, PoolCurrent, pass.pc \in {"discovery", "refill"}
  PROVE  \A r \in Repos : Merged[r] \in {0, points[r].v}
<1>1. \A c \in Succeeded : \A r \in Repos : channel[c].got[r] \in {0, points[r].v}
  BY DEF PassInv, FreshUnder, PoolCurrent, Early, Succeeded
<1> QED BY <1>1, MergedAt DEF PassInv

(* The owner of a refresh.                                                 *)
LEMMA OwnPoolKeeps == ASSUME PassInv, OwnPool PROVE PassInv'
<1> DEFINE found == Without(Merged, pass.excluded)
<1>1. /\ pass.pc = "discovery" /\ pass.lease = "owner"
      /\ UNCHANGED <<points, revision, seen, conflicts, semantic, social, retained>>
  BY DEF OwnPool, Unobserved
<1>2. ~pass.mode.inline BY <1>1 DEF PassInv, NothingYet
<1>3. found \in Snapshots /\ \A r \in Repos : found[r] \in {0, Merged[r]}
  BY MergedAt, WithoutAt DEF PassInv
<1>4. PoolCurrent => \A r \in Repos : found[r] \in {0, points[r].v}
  <2>1. PoolCurrent => \A r \in Repos : Merged[r] \in {0, points[r].v} BY <1>1, MergedFresh
  <2> QED BY <1>3, <2>1
<1>5. seen' \in Snapshots /\ seen' \in [Repos -> Int] /\ conflicts' = {} BY <1>1, <1>2 DEF PassInv, NothingYet, PassTyped
<1> HIDE DEF found
<1>6. CASE NothingFound BY <1>1, <1>5, <1>6, NothingFoundKeeps
<1>7. ASSUME NEW lease, Discovered(found, lease), (lease = "owner" /\ PoolCurrent) \/ lease = "partial" PROVE PassInv'
  <2>1. lease # "partial" => \A r \in Repos : semantic[r] = 0 \/ found[r] = 0 \/ semantic[r] = found[r]
    BY <1>1, <1>4, <1>7, FreshAgree
  <2>2. lease \in {"none", "owner", "pool", "partial"} BY <1>7
  <2> QED BY <1>1, <1>2, <1>3, <1>5, <1>7, <2>1, <2>2, DiscoveredKeeps
<1>8. CASE Refill(found, ReadIds) /\ PoolCurrent /\ UNCHANGED discovery
  <2>1. ReadIds \in SUBSET Repos BY DEF ReadIds, Got, Scored
  <2> QED BY <1>1, <1>2, <1>3, <1>4, <1>8, <2>1, RefillKeeps
<1>9. CASE Refill(None, {}) /\ UNCHANGED discovery
  BY <1>1, <1>2, <1>9, NoneTyped, RefillKeeps
<1>10. \/ NothingFound
       \/ \E lease : Discovered(found, lease) /\ ((lease = "owner" /\ PoolCurrent) \/ lease = "partial")
       \/ Refill(found, ReadIds) /\ PoolCurrent /\ UNCHANGED discovery
       \/ Refill(None, {}) /\ UNCHANGED discovery
  BY DEF OwnPool, found
<1> QED BY <1>6, <1>7, <1>8, <1>9, <1>10

(* A pool found or awaited.                                                *)
LEMMA JoinPoolKeeps == ASSUME PassInv, JoinPool PROVE PassInv'
<1>1. /\ pass.pc = "discovery" /\ pass.lease = "pool"
      /\ UNCHANGED <<points, revision, seen, conflicts, semantic, social, retained>>
  BY DEF JoinPool, Unobserved
<1>2. ~pass.mode.inline BY <1>1 DEF PassInv, NothingYet
<1>3. seen' \in Snapshots /\ seen' \in [Repos -> Int] /\ conflicts' = {} BY <1>1, <1>2 DEF PassInv, NothingYet, PassTyped
<1>4. ASSUME NEW s, PoolCurrent, NEW found, found = Without(Versions(s), pass.excluded),
             Discovered(found, "pool") \/ (Refill(found, {}) /\ UNCHANGED discovery)
      PROVE  PassInv'
  <2>1. Versions(s) \in Snapshots /\ \A r \in Repos : Versions(s)[r] \in {0, points[r].v} BY VersionsAt DEF PassInv
  <2>2. found \in Snapshots /\ \A r \in Repos : found[r] \in {0, Versions(s)[r]} BY <1>4, <2>1, WithoutAt
  <2>3. \A r \in Repos : found[r] \in {0, points[r].v} BY <2>1, <2>2
  <2>4. CASE Discovered(found, "pool")
    <3>1. \A r \in Repos : semantic[r] = 0 \/ found[r] = 0 \/ semantic[r] = found[r] BY <1>1, <1>4, <2>3, FreshAgree
    <3> QED BY <1>1, <1>2, <1>3, <2>2, <2>4, <3>1, DiscoveredKeeps
  <2>5. CASE Refill(found, {}) /\ UNCHANGED discovery
    <3>1. {} \in SUBSET Repos OBVIOUS
    <3> QED BY <1>1, <1>2, <2>2, <2>3, <2>5, <3>1, RefillKeeps
  <2> QED BY <1>4, <2>4, <2>5
<1>5. CASE Refill(None, {}) /\ UNCHANGED discovery
  BY <1>1, <1>2, <1>5, NoneTyped, RefillKeeps
<1>6. \/ PoolCurrent /\ \E s : LET found == Without(Versions(s), pass.excluded)
                               IN Discovered(found, "pool") \/ (Refill(found, {}) /\ UNCHANGED discovery)
      \/ Refill(None, {}) /\ UNCHANGED discovery
  BY DEF JoinPool
<1> QED BY <1>4, <1>5, <1>6

-----------------------------------------------------------------------------
(* The semantic rounds and the request's own channels                      *)

LEMMA ReadSemanticKeeps == ASSUME PassInv, ReadSemantic PROVE PassInv'
<1> DEFINE limit == AtMost(SemanticTarget - Cardinality(Scored(semantic)), pass.left)
<1>1. /\ pass \in Passes /\ pass.left \in Nat /\ pass.round \in Int /\ pass.skipped \in SUBSET Repos /\ pass.pc = "semantic"
      /\ UNCHANGED <<points, revision, channel, discovery, social, held, retained>>
  BY DEF PassInv, PassTyped, Passes, ReadSemantic
<1>2. pass.left - limit \in Nat
  <2>1. Scored(semantic) \in SUBSET Repos BY DEF Scored
  <2>2. SemanticTarget - Cardinality(Scored(semantic)) \in Int BY <2>1, Sizes, Bounds
  <2> QED BY <1>1, <2>2, Less
<1>3. /\ \/ \E next \in {[Onward EXCEPT !.left = @ - limit]} : pass' = next
         \/ \E s \in SUBSET Repos : pass' = [[pass EXCEPT !.round = @ + 1, !.skipped = @ \cup s] EXCEPT !.left = @ - limit]
      /\ \/ Unobserved /\ UNCHANGED semantic
         \/ \E s \in SUBSET Repos : semantic' = Over(semantic, Taken(Versions(s))) /\ Observe(Versions(s), {Versions(s)})
  BY DEF ReadSemantic, Answers
<1> HIDE DEF limit
<1>4. /\ pass' \in Passes /\ pass'.pc \in {"semantic", "discovery"} /\ pass'.mode = pass.mode /\ pass'.asked = pass.asked
      /\ pass'.excluded = pass.excluded /\ pass'.dislikes = pass.dislikes /\ pass'.lease = pass.lease
      /\ pass'.under = pass.under
  <2>1. CASE pass' = [Onward EXCEPT !.left = @ - limit]
    <3>1. "discovery" \in PassStages /\ {} \in SUBSET Repos /\ 1 \in Int BY DEF PassStages
    <3>2. Onward \in Passes /\ Onward.left = pass.left /\ Onward.pc = "discovery" /\ Onward.mode = pass.mode
          /\ Onward.asked = pass.asked /\ Onward.excluded = pass.excluded /\ Onward.dislikes = pass.dislikes
          /\ Onward.lease = pass.lease /\ Onward.under = pass.under
      BY <1>1, <3>1 DEF Onward, Passes
    <3>3. pass' = [Onward EXCEPT !.left = pass.left - limit] BY <2>1, <3>2
    <3> HIDE DEF Onward
    <3> QED BY <1>2, <3>2, <3>3 DEF Passes
  <2>2. ASSUME NEW s \in SUBSET Repos, pass' = [[pass EXCEPT !.round = @ + 1, !.skipped = @ \cup s] EXCEPT !.left = @ - limit]
        PROVE  /\ pass' \in Passes /\ pass'.pc = "semantic" /\ pass'.mode = pass.mode /\ pass'.asked = pass.asked
               /\ pass'.excluded = pass.excluded /\ pass'.dislikes = pass.dislikes /\ pass'.lease = pass.lease
               /\ pass'.under = pass.under
    <3>1. pass.round + 1 \in Int BY <1>1
    <3>2. pass.skipped \cup s \in SUBSET Repos BY <1>1
    <3>3. pass' = [pass EXCEPT !.round = pass.round + 1, !.skipped = pass.skipped \cup s, !.left = pass.left - limit]
      BY <1>1, <2>2 DEF Passes
    <3> QED BY <1>1, <1>2, <3>1, <3>2, <3>3 DEF Passes
  <2> QED BY <1>3, <2>1, <2>2
<1>5. /\ seen' \in [Repos -> Int] /\ semantic' \in Snapshots /\ conflicts' \subseteq Repos
      /\ ~pass.mode.inline => conflicts' = {} /\ seen' \in Snapshots
      /\ PoolCurrent => \A r \in Repos : seen'[r] \in {0, points[r].v} /\ semantic'[r] \in {0, points[r].v}
      /\ \A r \in Repos \ conflicts' : semantic'[r] \in {0, seen'[r]} /\ discovery[r] \in {0, seen'[r]}
  <2>1. PoolCurrent => \A r \in Repos : seen[r] \in {0, points[r].v} /\ semantic[r] \in {0, points[r].v}
    BY <1>1 DEF PassInv, FreshUnder, PoolCurrent, Early
  <2>2. \A r \in Repos \ conflicts : semantic[r] \in {0, seen[r]} /\ discovery[r] \in {0, seen[r]}
    BY <1>1 DEF PassInv, MemoKept, Early
  <2>3. CASE Unobserved /\ UNCHANGED semantic
    BY <2>1, <2>2, <2>3 DEF PassInv, PassTyped, NothingYet, Unobserved
  <2>4. ASSUME NEW got \in Snapshots, \A r \in Repos : got[r] \in {0, points[r].v},
               semantic' = Over(semantic, Taken(got)), Observe(got, {got})
        PROVE  /\ seen' \in [Repos -> Int] /\ semantic' \in Snapshots /\ conflicts' \subseteq Repos
               /\ ~pass.mode.inline => conflicts' = {} /\ seen' \in Snapshots
               /\ PoolCurrent => \A r \in Repos : seen'[r] \in {0, points[r].v} /\ semantic'[r] \in {0, points[r].v}
               /\ \A r \in Repos \ conflicts' : semantic'[r] \in {0, seen'[r]} /\ discovery[r] \in {0, seen'[r]}
    <3>1. /\ seen' \in [Repos -> Int] /\ conflicts' \subseteq Repos
          /\ ~pass.mode.inline => conflicts' = {} /\ seen' \in Snapshots
      <4>1. got \in [Repos -> Int] BY <2>4 DEF Snapshots
      <4> QED BY <2>4, <4>1, ObserveTyped
    <3>2. semantic' \in Snapshots BY <2>4, TakenTyped, OverAt DEF PassInv, PassTyped
    <3>3. \A r \in Repos : semantic'[r] = IF semantic[r] # 0 THEN semantic[r] ELSE Taken(got)[r] BY <2>4, OverAt
    <3>4. PoolCurrent => \A r \in Repos : seen'[r] \in {0, points[r].v} /\ semantic'[r] \in {0, points[r].v}
      BY <2>1, <2>4, <3>3, TakenFresh DEF Observe, PassInv
    <3>5. \A r \in Repos \ conflicts' : semantic'[r] \in {0, seen'[r]} /\ discovery[r] \in {0, seen'[r]}
      <4> TAKE r \in Repos \ conflicts'
      <4>1. /\ r \notin conflicts /\ \A n : n \in {0, seen[r]} => n \in {0, seen'[r]}
            /\ Taken(got)[r] \in {0, seen'[r]}
        BY <2>4, MemoGrows DEF PassInv
      <4> QED BY <2>2, <3>3, <4>1
    <3> QED BY <3>1, <3>2, <3>4, <3>5
  <2> QED BY <1>3, <2>3, <2>4, VersionsAt DEF PassInv
<1>6. PassTyped' BY <1>1, <1>4, <1>5 DEF PassInv, PassTyped
<1>7. NothingYet' BY <1>1, <1>4, <1>5 DEF PassInv, NothingYet
<1>8. ExclusionsKnown' BY <1>1, <1>4 DEF PassInv, ExclusionsKnown
<1>9. FreshUnder' BY <1>1, <1>4, <1>5 DEF PassInv, FreshUnder, PoolCurrent, Early
<1>10. MemoKept' BY <1>1, <1>5 DEF MemoKept
<1>11. SourcesAgree' BY <1>4 DEF SourcesAgree
<1> QED BY <1>4, <1>6, <1>7, <1>8, <1>9, <1>10, <1>11 DEF PassInv

LEMMA CollectKeeps == ASSUME PassInv, Collect PROVE PassInv'
<1> DEFINE found == Over(discovery, Without(Taken(Merged), pass.excluded))
           all == IF PoolCurrent THEN Over(held, found) ELSE found
           without == pass.excluded \cup pass.skipped \cup ReadIds
           good == pass.good + Cardinality(Succeeded)
<1>1. /\ pass \in Passes /\ pass.left \in Nat /\ pass.round \in Int /\ pass.good \in Int
      /\ pass.excluded \in SUBSET Repos /\ pass.skipped \in SUBSET Repos
      /\ pass.lease \in {"none", "owner", "pool", "partial"} /\ (pass.mode.inline => pass.lease = "none")
      /\ semantic \in Snapshots /\ discovery \in Snapshots /\ held \in Snapshots
  BY DEF PassInv, PassTyped, Passes, NothingYet
<1>2. /\ pass.pc \in {"discovery", "refill"} /\ Observe(Merged, Got)
      /\ UNCHANGED <<points, revision, semantic, social, retained>>
  BY DEF Collect
<1>3. Merged \in Snapshots /\ Taken(Merged) \in Snapshots BY MergedAt, TakenTyped DEF PassInv
<1>4. /\ found \in Snapshots
      /\ \A r \in Repos : found[r] = discovery[r] \/ (discovery[r] = 0 /\ found[r] \in {0, Taken(Merged)[r]})
  BY <1>1, <1>3, OverAt, WithoutAt
<1>5. /\ seen' \in [Repos -> Int] /\ conflicts' \subseteq Repos
      /\ ~pass.mode.inline => conflicts' = {} /\ seen' \in Snapshots
  <2>1. Merged \in [Repos -> Int] BY <1>3 DEF Snapshots
  <2> QED BY <1>2, <1>3, <2>1, ObserveTyped
<1>6. \A r \in Repos \ conflicts' : semantic[r] \in {0, seen'[r]} /\ found[r] \in {0, seen'[r]}
  <2> TAKE r \in Repos \ conflicts'
  <2>1. Merged[r] = 0 \/ \E o \in Got : o[r] = Merged[r] BY MergedAt DEF PassInv, Got
  <2>2. /\ r \notin conflicts /\ \A n : n \in {0, seen[r]} => n \in {0, seen'[r]}
        /\ Taken(Merged)[r] \in {0, seen'[r]}
    BY <1>2, <1>3, <2>1, MemoGrows DEF PassInv
  <2>3. semantic[r] \in {0, seen[r]} /\ discovery[r] \in {0, seen[r]}
    BY <1>2, <2>2 DEF PassInv, MemoKept, Early
  <2> HIDE DEF found
  <2> QED BY <1>4, <2>2, <2>3
<1>7. PoolCurrent =>
        \A r \in Repos : {seen'[r], semantic[r], found[r], held[r]} \subseteq {0, points[r].v}
  <2> SUFFICES ASSUME PoolCurrent, NEW r \in Repos
               PROVE  {seen'[r], semantic[r], found[r], held[r]} \subseteq {0, points[r].v}
    OBVIOUS
  <2>1. {seen[r], semantic[r], discovery[r], held[r]} \subseteq {0, points[r].v}
    BY <1>2 DEF PassInv, FreshUnder, PoolCurrent, Early
  <2>2. Merged[r] \in {0, points[r].v} BY <1>2, MergedFresh
  <2>3. Over(seen, Merged)[r] \in {0, points[r].v} /\ Taken(Merged)[r] \in {0, points[r].v}
    BY <1>3, <2>1, <2>2, TakenFresh DEF PassInv
  <2>4. seen'[r] = Over(seen, Merged)[r] BY <1>2 DEF Observe
  <2> HIDE DEF found
  <2> QED BY <1>4, <2>1, <2>3, <2>4
<1> HIDE DEF found
<1>8. ASSUME discovery' = found, channel' = Sent(without, Full), UNCHANGED held,
             pass' = [pass EXCEPT !.round = @ + 1, !.skipped = without, !.left = @ - Spent(Full), !.good = good]
      PROVE  PassInv'
  <2>1. without \in SUBSET Repos /\ Full \in SUBSET Searches /\ Succeeded \in SUBSET Searches
    BY <1>1 DEF ReadIds, Got, Scored, Full, Succeeded
  <2>2. pass.left - Spent(Full) \in Nat BY <1>1, <2>1, SpentLess
  <2>3. good \in Int /\ pass.round + 1 \in Int BY <1>1, <2>1, Sizes
  <2> HIDE DEF good, without
  <2>4. pass' \in Passes BY <1>1, <1>8, <2>1, <2>2, <2>3 DEF Passes
  <2>5. /\ pass'.pc = pass.pc /\ pass'.mode = pass.mode /\ pass'.asked = pass.asked /\ pass'.lease = pass.lease
        /\ pass'.excluded = pass.excluded /\ pass'.under = pass.under /\ pass'.dislikes = pass.dislikes
    BY <1>1, <1>8 DEF Passes
  <2>6. channel' \in [Searches -> ChannelReads] /\ \A c \in Searches : channel'[c].got = None
    BY <1>1, <1>8, <2>1, SentTyped
  <2>7. PassTyped' BY <1>2, <1>4, <1>5, <1>8, <2>4, <2>6 DEF PassInv, PassTyped
  <2>8. NothingYet' BY <1>2, <1>5, <1>8, <2>5 DEF PassInv, NothingYet
  <2>9. ExclusionsKnown' BY <2>5 DEF PassInv, ExclusionsKnown
  <2>10. FreshUnder' BY <1>2, <1>7, <1>8, <2>5, <2>6, NoneTyped DEF FreshUnder, PoolCurrent
  <2>11. MemoKept' BY <1>2, <1>6, <1>8 DEF MemoKept
  <2>12. SourcesAgree' BY <1>2, <2>5 DEF SourcesAgree
  <2> QED BY <1>2, <2>5, <2>7, <2>8, <2>9, <2>10, <2>11, <2>12 DEF PassInv
<1>9. CASE NothingFound BY <1>2, <1>5, <1>9, NothingFoundKeeps
<1>10. CASE Discovered(all, pass.lease)
  <2>1. all \in Snapshots BY <1>1, <1>4, OverAt
  <2>2. \A r \in Repos \ conflicts' : semantic[r] = 0 \/ all[r] = 0 \/ semantic[r] = all[r]
    <3> TAKE r \in Repos \ conflicts'
    <3>1. CASE PoolCurrent
      <4>1. all[r] = IF held[r] # 0 THEN held[r] ELSE found[r] BY <3>1, OverAt
      <4>2. {seen'[r], semantic[r], found[r], held[r]} \subseteq {0, points[r].v} BY <1>7, <3>1
      <4> HIDE DEF all
      <4> QED BY <4>1, <4>2
    <3>2. CASE ~PoolCurrent
      <4>1. all = found BY <3>2
      <4> QED BY <1>6, <4>1
    <3> QED BY <3>1, <3>2
  <2> HIDE DEF all
  <2> QED BY <1>1, <1>2, <1>5, <1>10, <2>1, <2>2, DiscoveredKeeps
<1>11. \/ /\ discovery' = found /\ channel' = Sent(without, Full) /\ UNCHANGED held
          /\ pass' = [pass EXCEPT !.round = @ + 1, !.skipped = without, !.left = @ - Spent(Full), !.good = good]
       \/ NothingFound \/ Discovered(all, pass.lease)
  BY DEF Collect, found
<1> QED BY <1>8, <1>9, <1>10, <1>11

-----------------------------------------------------------------------------
(* Fusion and the answer                                                   *)

LEMMA SocialKeeps == ASSUME PassInv, Social PROVE PassInv'
<1>1. /\ pass \in Passes /\ pass.pc = "social" /\ pass.lookup # "sent" /\ PassGoes("fuse")
      /\ UNCHANGED <<points, revision, channel, semantic, discovery, held, retained>>
      /\ social' = [r \in Repos |-> IF r \in Compatible THEN social[r] ELSE 0]
  BY DEF PassInv, PassTyped, Social
<1>2. /\ pass' \in Passes /\ pass'.pc = "fuse" /\ pass'.mode = pass.mode /\ pass'.asked = pass.asked
      /\ pass'.excluded = pass.excluded /\ pass'.dislikes = pass.dislikes /\ pass'.lease = pass.lease
      /\ pass'.under = pass.under /\ pass'.lookup = pass.lookup
  BY <1>1 DEF Passes, PassGoes, PassStages
<1>3. social \in [Repos -> Int] BY DEF PassInv, PassTyped
<1>4. /\ seen' \in [Repos -> Int] /\ conflicts' \subseteq Repos /\ conflicts \subseteq conflicts'
      /\ ~pass.mode.inline => conflicts' = {} /\ seen' \in Snapshots
  <2>1. CASE pass.mode.inline /\ Observe(social, {social})
    <3>1. conflicts \subseteq conflicts' BY <2>1 DEF Observe
    <3> QED BY <1>3, <2>1, <3>1, ObserveTyped
  <2>2. CASE ~pass.mode.inline /\ Unobserved BY <2>2 DEF PassInv, PassTyped, NothingYet, Unobserved
  <2> QED BY <2>1, <2>2 DEF Social
<1>5. \A r \in Repos : /\ social'[r] >= 0 /\ social'[r] \in Int
                       /\ social'[r] = 0 \/ Metadata[r] \in {0, social'[r]}
  BY <1>1, <1>3 DEF Compatible, Scored
<1>6. PassTyped'
  <2>1. social' \in [Repos -> Int] BY <1>1, <1>5
  <2> QED BY <1>1, <1>2, <1>4, <2>1 DEF PassInv, PassTyped
<1>7. NothingYet' BY <1>1, <1>2, <1>4 DEF PassInv, NothingYet
<1>8. ExclusionsKnown' BY <1>1, <1>2 DEF PassInv, ExclusionsKnown
<1>9. FreshUnder' /\ MemoKept' BY <1>2 DEF FreshUnder, MemoKept, Early
<1>10. SourcesAgree'
  <2>1. Whole' => \A r \in Repos \ conflicts' : Agree(r)'
    BY <1>1, <1>2, <1>4 DEF PassInv, SourcesAgree, Agree, Whole
  <2>2. Metadata' = Metadata BY <1>1 DEF Metadata, Over
  <2> QED BY <1>2, <1>5, <2>1, <2>2 DEF SourcesAgree
<1> QED BY <1>2, <1>6, <1>7, <1>8, <1>9, <1>10 DEF PassInv

(* Sources that agree contribute one snapshot.                             *)
LEMMA OneContribution ==
  ASSUME PassTyped, NEW r \in Repos, Agree(r), social[r] >= 0, social[r] = 0 \/ Metadata[r] \in {0, social[r]},
         semantic[r] > 0 \/ discovery[r] > 0 \/ social[r] > 0
  PROVE  Cardinality(Contributions(r)) = 1
<1>1. Metadata[r] = IF discovery[r] # 0 THEN discovery[r] ELSE semantic[r] BY OverAt DEF Metadata
<1>2. semantic[r] \in Nat /\ discovery[r] \in Nat /\ social[r] \in Int BY DEF PassTyped, Snapshots
<1>3. \E v \in {semantic[r], discovery[r], social[r]} : Contributions(r) = {v}
  <2>1. CASE discovery[r] # 0
    <3>1. Contributions(r) = {discovery[r]} BY <1>1, <1>2, <2>1 DEF Contributions, Agree
    <3> QED BY <3>1
  <2>2. CASE discovery[r] = 0 /\ semantic[r] # 0
    <3>1. Contributions(r) = {semantic[r]} BY <1>1, <1>2, <2>2 DEF Contributions
    <3> QED BY <3>1
  <2>3. CASE discovery[r] = 0 /\ semantic[r] = 0
    <3>1. Contributions(r) = {social[r]} BY <1>2, <2>3 DEF Contributions
    <3> QED BY <3>1
  <2> QED BY <2>1, <2>2, <2>3
<1> QED BY <1>3, FS_Singleton

LEMMA FuseKeeps == ASSUME PassInv, Fuse PROVE PassInv'
<1>1. /\ pass \in Passes /\ pass.pc = "fuse"
      /\ PassGoes(IF pass.mode.heavy /\ pass.vector THEN "hydrate" ELSE "rank")
      /\ UNCHANGED <<points, revision, channel, semantic, discovery, social, held>>
      /\ seen' = None /\ conflicts' = {}
      /\ retained' \subseteq (UNION {Scored(semantic), Scored(discovery), Scored(social)}) \ conflicts
  BY DEF PassInv, PassTyped, Fuse, sources
<1>2. /\ pass' \in Passes /\ pass'.pc \in {"hydrate", "rank"} /\ pass'.mode = pass.mode /\ pass'.asked = pass.asked
      /\ pass'.excluded = pass.excluded /\ pass'.dislikes = pass.dislikes /\ pass'.lease = pass.lease
      /\ pass'.under = pass.under /\ pass'.lookup = pass.lookup
  BY <1>1 DEF Passes, PassGoes, PassStages
<1>3. PassTyped'
  <2>1. retained' \subseteq Repos BY <1>1 DEF Scored
  <2>2. None \in [Repos -> Int] BY DEF None
  <2> QED BY <1>1, <1>2, <2>1, <2>2 DEF PassInv, PassTyped
<1>4. NothingYet' BY <1>1, <1>2, NoneTyped DEF PassInv, NothingYet
<1>5. ExclusionsKnown' BY <1>1, <1>2 DEF PassInv, ExclusionsKnown
<1>6. FreshUnder' /\ MemoKept' BY <1>2 DEF FreshUnder, MemoKept, Early
<1>7. SourcesAgree'
  <2> SUFFICES ASSUME Whole', NEW r \in retained' PROVE Cardinality(Contributions(r)') = 1
    BY <1>2 DEF SourcesAgree
  <2>1. r \in Repos \ conflicts /\ (semantic[r] > 0 \/ discovery[r] > 0 \/ social[r] > 0)
    <3>1. r \in (UNION {Scored(semantic), Scored(discovery), Scored(social)}) \ conflicts BY <1>1
    <3>2. r \in Scored(semantic) \/ r \in Scored(discovery) \/ r \in Scored(social) BY <3>1
    <3> QED BY <3>1, <3>2 DEF Scored
  <2>2. Agree(r) /\ social[r] >= 0 /\ (social[r] = 0 \/ Metadata[r] \in {0, social[r]})
    BY <1>1, <1>2, <2>1 DEF PassInv, SourcesAgree, Whole
  <2>3. Cardinality(Contributions(r)) = 1 BY <2>1, <2>2, OneContribution DEF PassInv
  <2>4. Contributions(r)' = Contributions(r) BY <1>1 DEF Contributions
  <2> QED BY <2>3, <2>4
<1> QED BY <1>2, <1>3, <1>4, <1>5, <1>6, <1>7 DEF PassInv

(* The answer keeps some of the retained candidates.                       *)
LEMMA RankedKeeps ==
  ASSUME PassInv, pass.pc \in {"hydrate", "rank", "fallback"}, pass' \in Passes,
         pass'.pc \in {"rank", "fallback", "done"}, pass'.mode = pass.mode, pass'.asked = pass.asked,
         pass'.excluded = pass.excluded, pass'.dislikes = pass.dislikes, pass'.lease = pass.lease,
         pass'.under = pass.under, pass'.lookup = pass.lookup, retained' \subseteq retained,
         pass'.pc = "done" => retained' \cap pass.excluded = {} /\ (pass.mode.required => pass'.good = 1),
         UNCHANGED <<points, revision, channel, seen, conflicts, semantic, discovery, social, held>>
  PROVE  PassInv'
<1>1. PassTyped' BY DEF PassInv, PassTyped
<1>2. NothingYet' BY DEF PassInv, NothingYet
<1>3. ExclusionsKnown' BY DEF PassInv, ExclusionsKnown
<1>4. FreshUnder' /\ MemoKept' BY DEF FreshUnder, MemoKept, Early
<1>5. SourcesAgree'
  <2>1. \A r : Contributions(r)' = Contributions(r) BY DEF Contributions
  <2>2. Whole => \A r \in retained : Cardinality(Contributions(r)) = 1 BY DEF PassInv, SourcesAgree
  <2> QED BY <2>1, <2>2 DEF SourcesAgree, Whole
<1> QED BY <1>1, <1>2, <1>3, <1>4, <1>5 DEF PassInv

LEMMA HydrateKeeps == ASSUME PassInv, Hydrate PROVE PassInv'
<1>1. /\ pass \in Passes /\ pass.pc = "hydrate" /\ retained' \subseteq retained
      /\ UNCHANGED <<points, revision, channel, seen, conflicts, semantic, discovery, social, held>>
  BY DEF PassInv, PassTyped, Hydrate, sources
<1>2. PICK pc \in {"rank", "fallback"} : PassGoes(pc) BY DEF Hydrate
<1>3. pc \in PassStages BY DEF PassStages
<1>4. /\ pass' \in Passes /\ pass'.pc = pc /\ pass'.mode = pass.mode /\ pass'.asked = pass.asked
      /\ pass'.excluded = pass.excluded /\ pass'.dislikes = pass.dislikes /\ pass'.lease = pass.lease
      /\ pass'.under = pass.under /\ pass'.lookup = pass.lookup
  BY <1>1, <1>2, <1>3 DEF Passes, PassGoes
<1> QED BY <1>1, <1>2, <1>4, RankedKeeps

LEMMA RankCandidatesKeeps == ASSUME PassInv, RankCandidates PROVE PassInv'
<1>1. /\ pass \in Passes /\ pass.pc \in {"rank", "fallback"}
      /\ UNCHANGED <<points, revision, channel, seen, conflicts, semantic, discovery, social, held>>
  BY DEF PassInv, PassTyped, RankCandidates, sources
<1>2. CASE PassGoes("failed") /\ UNCHANGED retained
  <2>1. pass' \in Passes BY <1>1, <1>2 DEF PassGoes, Passes, PassStages
  <2>2. PassTyped' BY <1>1, <1>2, <2>1 DEF PassInv, PassTyped
  <2>3. (pass.mode.inline => held' = None) /\ (~pass.mode.inline => conflicts' = {} /\ seen' \in Snapshots)
    BY <1>1 DEF PassInv, NothingYet
  <2> QED BY <1>1, <1>2, <2>2, <2>3, FailedKeeps
<1>3. ASSUME NEW heavy \in BOOLEAN, ~(pass.mode.required /\ ~heavy), retained' \subseteq retained \ pass.excluded,
             pass' = [pass EXCEPT !.pc = "done", !.good = IF heavy THEN 1 ELSE 0]
      PROVE  PassInv'
  <2>1. "done" \in PassStages /\ (IF heavy THEN 1 ELSE 0) \in Int BY DEF PassStages
  <2>2. /\ pass' \in Passes /\ pass'.pc = "done" /\ pass'.mode = pass.mode /\ pass'.asked = pass.asked
        /\ pass'.excluded = pass.excluded /\ pass'.dislikes = pass.dislikes /\ pass'.lease = pass.lease
        /\ pass'.under = pass.under /\ pass'.lookup = pass.lookup /\ pass'.good = (IF heavy THEN 1 ELSE 0)
    BY <1>1, <1>3, <2>1 DEF Passes
  <2>3. pass.mode.required => pass'.good = 1 BY <1>3, <2>2
  <2>4. retained' \subseteq retained /\ retained' \cap pass.excluded = {} BY <1>3
  <2> QED BY <1>1, <2>2, <2>3, <2>4, RankedKeeps
<1>4. \/ PassGoes("failed") /\ UNCHANGED retained
      \/ \E heavy \in BOOLEAN :
           /\ ~(pass.mode.required /\ ~heavy) /\ retained' \subseteq retained \ pass.excluded
           /\ pass' = [pass EXCEPT !.pc = "done", !.good = IF heavy THEN 1 ELSE 0]
  <2>1. pass.mode.heavy \in BOOLEAN /\ pass.vector \in BOOLEAN BY <1>1, ModesTyped DEF Passes
  <2>2. PICK heavy \in {FALSE, pass.pc = "rank" /\ pass.mode.heavy /\ pass.vector /\ retained # {}} :
          IF pass.mode.required /\ ~heavy THEN PassGoes("failed") /\ UNCHANGED retained
          ELSE /\ pass' = [pass EXCEPT !.pc = "done", !.good = IF heavy THEN 1 ELSE 0]
               /\ \E s \in SUBSET (retained \ pass.excluded) :
                    /\ Cardinality(s) = AtMost(Limit, Cardinality(retained \ pass.excluded))
                    /\ retained' = s
    BY DEF RankCandidates
  <2>3. heavy \in BOOLEAN BY <2>1, <2>2
  <2> QED BY <2>2, <2>3
<1> QED BY <1>2, <1>3, <1>4

-----------------------------------------------------------------------------
(* Every step, and the theorem                                             *)

LEMMA PassStarts == PassInit => PassInv
<1> SUFFICES ASSUME PassInit PROVE PassInv OBVIOUS
<1>1. PICK m \in Modes, asked \in SUBSET Repos, dislikes \in SUBSET Repos :
        pass = [pc |-> IF m.inline THEN "profile" ELSE "prepare", mode |-> m, asked |-> asked,
               dislikes |-> dislikes, excluded |-> asked, vector |-> FALSE,
               lookup |-> IF m.injects THEN "sent" ELSE "unsent",
               left |-> IF m.injects THEN Reads - AtMost(Cardinality(Repos \ asked), Reads) ELSE Reads,
               round |-> 1, skipped |-> {}, good |-> 0, lease |-> "none", under |-> 0]
  BY DEF PassInit
<1>2. (IF m.injects THEN Reads - AtMost(Cardinality(Repos \ asked), Reads) ELSE Reads) \in Nat
  <2>1. Reads \in Nat BY Bounds
  <2>2. Cardinality(Repos \ asked) \in Int
    <3>1. Repos \ asked \in SUBSET Repos OBVIOUS
    <3> QED BY <3>1, Sizes
  <2>3. Reads - AtMost(Cardinality(Repos \ asked), Reads) \in Nat BY <2>1, <2>2, Less
  <2> QED BY <2>1, <2>3
<1>3. pass \in Passes
  <2>1. (IF m.inline THEN "profile" ELSE "prepare") \in PassStages BY DEF PassStages
  <2>2. {} \in SUBSET Repos /\ 0 \in Nat /\ 1 \in Int /\ 0 \in Int OBVIOUS
  <2> QED BY <1>1, <1>2, <2>1, <2>2 DEF Passes
<1>4. /\ pass.pc \in {"prepare", "profile"} /\ (pass.pc = "prepare" <=> ~pass.mode.inline) /\ pass.lease = "none"
      /\ pass.asked = pass.excluded /\ pass.under = 0
  BY <1>1
<1>5. /\ points = [r \in Repos |-> [v |-> 1, ok |-> TRUE]] /\ revision = 0
      /\ channel = [c \in Searches |-> Unsent] /\ seen = None /\ conflicts = {} /\ retained = {}
      /\ semantic = None /\ discovery = None /\ social = None /\ held = None
  BY DEF PassInit
<1>6. PassTyped
  <2>1. points \in [Repos -> [v : Nat \ {0}, ok : BOOLEAN]] BY <1>5
  <2>2. None \in [Repos -> Int] BY DEF None
  <2> QED BY <1>3, <1>5, <2>1, <2>2, UnsentTyped, NoneTyped DEF PassTyped
<1>7. NothingYet BY <1>4, <1>5, NoneTyped DEF NothingYet
<1>8. ExclusionsKnown BY <1>4 DEF ExclusionsKnown
<1>9. FreshUnder /\ MemoKept BY <1>5, NoneTyped, UnsentTyped DEF FreshUnder, MemoKept
<1>10. SourcesAgree BY <1>4 DEF SourcesAgree
<1> QED BY <1>4, <1>6, <1>7, <1>8, <1>9, <1>10 DEF PassInv

LEMMA PassSteps == PassInv /\ [PassNext]_passVars => PassInv'
<1> SUFFICES ASSUME PassInv, [PassNext]_passVars PROVE PassInv' OBVIOUS
<1>1. CASE UNCHANGED passVars
  BY <1>1 DEF passVars, sources, PassInv, PassTyped, NothingYet, ExclusionsKnown, FreshUnder, MemoKept, SourcesAgree,
              Agree, Whole, Metadata, Over, Contributions
<1>2. ASSUME NEW r \in Repos, Change(r) PROVE PassInv' BY <1>2, ChangeKeeps
<1>3. ASSUME NEW c \in Searches, ReadChannel(c) PROVE PassInv' BY <1>3, ReadChannelKeeps
<1> QED BY <1>1, <1>2, <1>3, ProfileKeeps, PrepareKeeps, ReadSocialKeeps, ReadSemanticKeeps, OwnPoolKeeps, JoinPoolKeeps,
           CollectKeeps, SocialKeeps, FuseKeeps, HydrateKeeps, RankCandidatesKeeps, RaiseKeeps DEF PassNext

LEMMA PassFollows == PassInv => PassHonest
<1> SUFFICES ASSUME PassInv PROVE PassHonest OBVIOUS
<1>1. AnswerHonest
  <2>1. Served \cap (pass.asked \cup pass.dislikes) = {} BY DEF PassInv, ExclusionsKnown, Served
  <2>2. pass.left \in Nat BY DEF PassInv, PassTyped, Passes
  <2> QED BY <2>1, <2>2 DEF AnswerHonest, PassInv
<1>2. OneSnapshotShared BY DEF PassInv, SourcesAgree, Whole, OneSnapshotShared, OneSnapshot, Served
<1> QED BY <1>1, <1>2 DEF PassHonest

(* However the collection changes while a recommendation reads it: what is *)
(* excluded is not served, a required heavy ranker is not replaced, the    *)
(* reads stay within the budget, and each item served was scored from one  *)
(* snapshot of its repository, unless the answer is the partial one of an  *)
(* owner of a refresh (_retrieve_candidates).                              *)
THEOREM PassTheorem == PassSpec => []PassHonest
<1>1. PassSpec => []PassInv BY PassStarts, PassSteps, PTL DEF PassSpec
<1> QED BY <1>1, PassFollows, PTL

-----------------------------------------------------------------------------
(* The ranker *)

RankingSpec == RankingInit /\ [][RankingNext]_rankingVars

Artifacts == Builds \cup {Absent}
RankerStages == {"manifest", "hash_model", "hash_scaler", "judge", "model", "scaler", "loaded", "none"}
Rankers ==
  [at : RankerStages, manifest : Artifacts, model : Artifacts, scaler : Artifacts,
   matched : BOOLEAN, qualified : BOOLEAN, warm : {"not_started", "warming", "ready", "failed"},
   replaced : SUBSET Files]
Startups ==
  [required : BOOLEAN, unqualified : BOOLEAN, warmup : BOOLEAN, stopped : BOOLEAN, at : {"loading", "serving", "failed"}]

\* The file is the manifest's, or it was replaced after its digest was taken.
Vouched(build, file) == build = ranker.manifest \/ file \in ranker.replaced

\* What a ranker that goes on with its loading has passed: digests that match
\* vouch for the files until they are read and for the bytes from then on.
\* Nobody serves before its end, or before its warm-up.
RankerInv ==
  /\ disk \in [Files -> Artifacts] /\ ranker \in Rankers /\ startup \in Startups
  /\ ranker.at \in {"model", "scaler", "loaded"} => ranker.qualified \/ startup.unqualified
  /\ ranker.at \in {"manifest", "hash_model", "hash_scaler", "judge"} => ~ranker.qualified
  /\ ranker.qualified => Quality[ranker.manifest] = "override" \/ ranker.matched
  /\ ranker.matched =>
       /\ ranker.at \in {"hash_scaler", "judge", "model"} => Vouched(disk["model"], "model")
       /\ ranker.at \in {"judge", "model", "scaler"} => Vouched(disk["scaler"], "scaler")
       /\ ranker.at \in {"scaler", "loaded"} => Vouched(ranker.model, "model")
       /\ ranker.at = "loaded" => Vouched(ranker.scaler, "scaler")
  /\ ranker.at = "loaded" => Absent \notin {ranker.model, ranker.scaler}
  /\ ranker.warm # "not_started" \/ startup.at # "loading" => ranker.at \in {"loaded", "none"}
  /\ ranker.warm = "warming" => ranker.at = "loaded"
  /\ startup.stopped => startup.warmup
  /\ startup.at = "serving" =>
       /\ ~startup.stopped
       /\ startup.warmup /\ ranker.at = "loaded" => ranker.warm = "ready"

RankingStages == {"idle", "retained", "context", "score", "judged", "page", "answered", "refused"}
RankingCodes ==
  {"none", "DEPENDENCY", "CANDIDATE_VECTORS_UNAVAILABLE", "SCORING_CAPTURE_UNAVAILABLE", "HEAVY_UNAVAILABLE",
   "USER_VECTOR_UNAVAILABLE", "NO_ELIGIBLE_CANDIDATES", "HEAVY_SCORING_FAILED", "DEADLINE"}
AnyUser == RankUsers \cup {CHOOSE u \in RankUsers : TRUE}
Frames == [user : AnyUser, repo : Candidates, version : PointVersions]
Points == UNION {[set -> PointVersions] : set \in SUBSET Candidates}
RankingAnswers ==
  [kind : {"none", "heavy", "hybrid"}, items : Seq(Candidates), versions : SUBSET PointVersions, packets : Seq(Frames)]
Rankings ==
  [at : RankingStages, user : AnyUser, capture : BOOLEAN, vector : BOOLEAN, hybrid : Seq(Candidates), point : Points,
   digests : [Files -> Artifacts], heavy : Seq(Candidates), code : RankingCodes, answer : RankingAnswers]

RankedRows == [k \in DOMAIN ranking.hybrid |-> Row(ranking.hybrid[k])]
Heavily == ranking.heavy # <<>>

\* A request under way and the capture of its scope: who is ranked heavily is
\* of the canary, with a ranker; who is not has the reason, unless it asked for
\* a capture; and a capture holds the rows of all candidates or none yet.
RankedInv ==
  /\ ranking \in Rankings /\ ToSet(ranking.hybrid) \subseteq DOMAIN ranking.point
  /\ ranking.at \notin {"idle", "refused"} => startup.at = "serving"
  /\ ranking.at \in {"idle", "retained", "context", "score"} => ranking.code = "none" /\ ~Heavily
  /\ ranking.at \in {"context", "score"} => Selected
  /\ RankingAt("context") \/ (RankingAt("score") /\ ranking.capture) => ranking.capture /\ ranking.hybrid # <<>>
  /\ RankingAt("score") => scope.open = ranking.capture
  /\ Heavily => Selected /\ ToSet(ranking.heavy) \subseteq ToSet(ranking.hybrid)
  /\ Heavily /\ ranking.at \notin {"idle", "refused"} => ranker.at = "loaded"
  /\ ranking.at \in {"judged", "page"} /\ ~Heavily /\ ~ranking.capture => (ranking.code # "none" <=> Selected)
  /\ RankingAt("page") =>
       /\ startup.required \/ scope.open => Heavily
       /\ ranking.capture /\ ~scope.open => ranking.hybrid = <<>> /\ ranking.code = "none"
ScopeInv ==
  /\ scope \in {NoCapture, [open |-> TRUE, frames |-> <<>>], [open |-> TRUE, frames |-> RankedRows]}
  /\ scope.open =>
       /\ ranking.capture /\ ranking.at \in {"score", "judged", "page"} /\ ranking.hybrid # <<>>
       /\ ranker.at = "loaded" /\ ranker.manifest # Absent /\ ranking.digests = LoadedBytes
       /\ RankingAt("score") => scope.frames = <<>>
       /\ Heavily => scope.frames = RankedRows

RankingInv == RankerInv /\ RankedInv /\ ScopeInv /\ RankingSound

(* Permutations of what a sequence lists are sequences of it.              *)
LEMMA PermutationOf ==
  ASSUME NEW S, IsFiniteSet(S), NEW s \in SetToAllKPermutations(S)
  PROVE  s \in Seq(S) /\ ToSet(s) \subseteq S
<1>1. PICK T \in SUBSET S : s \in SetToSeqs(T) BY DEF SetToAllKPermutations
<1>2. IsFiniteSet(T) /\ Cardinality(T) \in Nat BY FS_Subset, FS_CardinalityType
<1>3. s \in [1..Cardinality(T) -> T] BY <1>1 DEF SetToSeqs
<1> QED BY <1>2, <1>3 DEF ToSet

LEMMA Listed == ASSUME NEW s \in Seq(Candidates) PROVE IsFiniteSet(ToSet(s)) /\ ToSet(s) \in SUBSET Candidates
<1>1. ToSet(s) \subseteq Candidates
  <2>1. \A i \in DOMAIN s : s[i] \in Candidates BY ElementOfSeq, LenProperties
  <2> QED BY <2>1 DEF ToSet
<1> QED BY <1>1, RankingAssumption, FS_Subset

(* The bytes of a loaded ranker are those its digests vouched for.         *)
LEMMA BytesTyped ==
  ASSUME RankerInv
  PROVE  /\ LoadedBytes \in [Files -> Artifacts] /\ LoadedBytes["manifest"] = ranker.manifest
         /\ LoadedBytes["model"] = ranker.model /\ LoadedBytes["scaler"] = ranker.scaler
<1>1. /\ ranker.manifest \in Artifacts /\ ranker.model \in Artifacts /\ ranker.scaler \in Artifacts
  BY DEF RankerInv, Rankers
<1>2. \A f \in Files : ranker[f] \in Artifacts BY <1>1 DEF Files
<1> QED BY <1>2 DEF LoadedBytes, Files

LEMMA BytesTraceable == ASSUME RankerInv, ranker.at = "loaded" PROVE Traceable(LoadedBytes)
<1>1. ranker.qualified /\ Quality[ranker.manifest] # "override" =>
        Vouched(ranker.model, "model") /\ Vouched(ranker.scaler, "scaler")
  BY DEF RankerInv
<1> QED BY <1>1, BytesTyped DEF Traceable, Vouched, Files

-----------------------------------------------------------------------------
LEMMA RankerKept ==
  ASSUME RankerInv, Deploy \/ Load \/ WarmUp
  PROVE  RankerInv'
<1> USE RankingAssumption
<1>1. CASE Deploy
  <2> PICK f \in Files, b \in Builds :
        /\ disk' = [disk EXCEPT ![f] = b]
        /\ ranker' = IF ranker.at \in Between(f) THEN [ranker EXCEPT !.replaced = @ \cup {f}] ELSE ranker
    BY <1>1 DEF Deploy
  <2>1. startup' = startup BY <1>1 DEF Deploy
  <2>2. disk' \in [Files -> Artifacts] BY DEF RankerInv, Artifacts
  <2>3. \A g \in Files \ {f} : disk'[g] = disk[g] BY DEF RankerInv
  <2>4. ranker \in Rankers BY DEF RankerInv
  <2>5. CASE ranker.at \in Between(f)
    <3>1. /\ ranker' \in Rankers /\ ranker'.at = ranker.at /\ ranker'.replaced = ranker.replaced \cup {f}
          /\ ranker'.manifest = ranker.manifest /\ ranker'.model = ranker.model /\ ranker'.scaler = ranker.scaler
          /\ ranker'.matched = ranker.matched /\ ranker'.qualified = ranker.qualified /\ ranker'.warm = ranker.warm
      BY <2>4, <2>5 DEF Rankers
    <3>2. f \in {"model", "scaler"} BY <2>5 DEF Between, Files
    <3>3. \A file \in {"model", "scaler"} : Vouched(disk[file], file) => Vouched(disk[file], file)'
      BY <2>3, <3>1, <3>2 DEF Vouched, Files
    <3>4. /\ Vouched(ranker.model, "model") => Vouched(ranker.model, "model")'
          /\ Vouched(ranker.scaler, "scaler") => Vouched(ranker.scaler, "scaler")'
      BY <3>1 DEF Vouched
    <3> QED BY <2>1, <2>2, <3>1, <3>3, <3>4 DEF RankerInv
  <2>6. CASE ranker.at \notin Between(f)
    <3>1. ranker' = ranker BY <2>6
    <3>2. f # "model" => disk'["model"] = disk["model"] BY <2>3 DEF Files
    <3>3. f # "scaler" => disk'["scaler"] = disk["scaler"] BY <2>3 DEF Files
    <3>4. f = "model" => ranker.at \notin {"hash_scaler", "judge", "model"} BY <2>6 DEF Between
    <3>5. f = "scaler" => ranker.at \notin {"judge", "model", "scaler"} BY <2>6 DEF Between
    <3> QED BY <2>1, <2>2, <3>1, <3>2, <3>3, <3>4, <3>5 DEF RankerInv, Vouched
  <2> QED BY <2>5, <2>6
<1>2. CASE ReadManifest
  <2>1. disk["manifest"] \in Artifacts BY DEF RankerInv, Files
  <2>2. \/ ranker' = [ranker EXCEPT !.at = "judge", !.matched = FALSE]
        \/ ranker' = [ranker EXCEPT !.at = "none"]
        \/ ranker' = [ranker EXCEPT !.at = "hash_model", !.manifest = disk["manifest"]]
    BY <1>2 DEF ReadManifest, Loads, Unavailable
  <2>3. UNCHANGED <<disk, startup>> /\ ranker.at = "manifest" BY <1>2 DEF ReadManifest, Loads
  <2> HIDE DEF RankerInv
  <2>4. /\ ranker \in Rankers /\ ~ranker.qualified /\ ranker.warm = "not_started" /\ startup.at = "loading"
        /\ disk \in [Files -> Artifacts] /\ startup \in Startups /\ (startup.stopped => startup.warmup)
    BY <2>3 DEF RankerInv
  <2>5. /\ ranker' \in Rankers /\ ranker'.at \in {"judge", "none", "hash_model"} /\ ranker'.warm = "not_started"
        /\ ~ranker'.qualified /\ (ranker'.at = "judge" => ~ranker'.matched)
    <3>1. CASE ranker' = [ranker EXCEPT !.at = "judge", !.matched = FALSE] BY <2>4, <3>1 DEF Rankers, RankerStages
    <3>2. CASE ranker' = [ranker EXCEPT !.at = "none"] BY <2>4, <3>2 DEF Rankers, RankerStages
    <3>3. CASE ranker' = [ranker EXCEPT !.at = "hash_model", !.manifest = disk["manifest"]]
      BY <2>1, <2>4, <3>3 DEF Rankers, RankerStages
    <3> QED BY <2>2, <3>1, <3>2, <3>3
  <2> QED BY <2>3, <2>4, <2>5 DEF RankerInv
<1>3. CASE Hash("model", "hash_model", "hash_scaler")
  BY <1>3 DEF Hash, Loads, RankerInv, Rankers, RankerStages, Vouched
<1>4. CASE Hash("scaler", "hash_scaler", "judge")
  BY <1>4 DEF Hash, Loads, RankerInv, Rankers, RankerStages, Vouched
<1>5. CASE Judge
  BY <1>5 DEF Judge, Loads, Unavailable, RankerInv, Rankers, RankerStages, Qualified, Vouched
<1>6. CASE LoadModel
  <2>1. disk["model"] \in Artifacts BY DEF RankerInv, Files
  <2> QED BY <1>6, <2>1 DEF LoadModel, Loads, RankerInv, Rankers, RankerStages, Vouched
<1>7. CASE LoadScaler
  <2>1. disk["scaler"] \in Artifacts BY DEF RankerInv, Files
  <2> QED BY <1>7, <2>1 DEF LoadScaler, Loads, Unavailable, RankerInv, Rankers, RankerStages, Vouched
<1>8. CASE Stop
  BY <1>8 DEF Stop, RankerInv, Startups, Vouched
<1>9. CASE WithoutWarmUp
  BY <1>9 DEF WithoutWarmUp, Starts, RankerInv, Startups, Vouched
<1>10. CASE WarmWithoutRanker
  BY <1>10 DEF WarmWithoutRanker, Starts, RankerInv, Startups, Vouched
<1>11. CASE BeginWarmUp
  BY <1>11 DEF BeginWarmUp, Loads, RankerInv, Rankers, Vouched
<1>12. CASE EndWarmUp
  <2> PICK fails \in BOOLEAN :
        IF ~fails /\ ~startup.stopped
        THEN ranker' = [ranker EXCEPT !.warm = "ready"] /\ Starts("serving")
        ELSE LET fatal == startup.required \/ startup.stopped
             IN  /\ ranker' = [ranker EXCEPT !.warm = "failed", !.at = IF fatal THEN @ ELSE "none"]
                 /\ Starts(IF fatal THEN "failed" ELSE "serving")
    BY <1>12 DEF EndWarmUp
  <2>1. UNCHANGED disk /\ startup.at = "loading" /\ ranker.at = "loaded" BY <1>12 DEF EndWarmUp, RankerInv
  <2>2. CASE ~fails /\ ~startup.stopped
    BY <2>1, <2>2 DEF Starts, RankerInv, Rankers, Startups, Vouched
  <2>3. CASE (fails \/ startup.stopped) /\ (startup.required \/ startup.stopped)
    <3>1. ranker' = [ranker EXCEPT !.warm = "failed", !.at = ranker.at] /\ startup' = [startup EXCEPT !.at = "failed"]
      BY <2>1, <2>3 DEF Starts
    <3> QED BY <2>1, <2>3, <3>1 DEF RankerInv, Rankers, Startups, RankerStages, Vouched
  <2>4. CASE fails /\ ~startup.required /\ ~startup.stopped
    <3>1. ranker' = [ranker EXCEPT !.warm = "failed", !.at = "none"] /\ startup' = [startup EXCEPT !.at = "serving"]
      BY <2>4 DEF Starts
    <3> QED BY <2>1, <2>4, <3>1 DEF RankerInv, Rankers, Startups, RankerStages, Vouched
  <2> QED BY <2>2, <2>3, <2>4
<1> QED BY <1>1, <1>2, <1>3, <1>4, <1>5, <1>6, <1>7, <1>8, <1>9, <1>10, <1>11, <1>12 DEF Load, WarmUp

-----------------------------------------------------------------------------
(* While the ranker changes nobody is served, and nothing is being ranked. *)
LEMMA RankerMoves ==
  ASSUME RankingInv, Deploy \/ Load \/ WarmUp
  PROVE  RankingInv'
<1>1. RankerInv' BY RankerKept DEF RankingInv
<1>2. UNCHANGED <<scope, ranking>>
  BY DEF Deploy, Load, WarmUp, ReadManifest, Hash, Judge, LoadModel, LoadScaler, Loads, Stop, WithoutWarmUp,
         WarmWithoutRanker, BeginWarmUp, EndWarmUp
<1>3. ranking.at \in {"idle", "refused"} \/ UNCHANGED <<ranker, startup>>
  <2>1. CASE startup.at = "serving" /\ ~Deploy
    <3>1. ranker.at \in {"loaded", "none"} BY <2>1 DEF RankingInv, RankerInv
    <3> QED
      BY <2>1, <3>1 DEF Load, WarmUp, ReadManifest, Hash, Judge, LoadModel, LoadScaler, Stop, WithoutWarmUp,
                        WarmWithoutRanker, BeginWarmUp, EndWarmUp
  <2>2. CASE Deploy BY <2>2 DEF Deploy, RankingInv, RankedInv
  <2>3. CASE startup.at # "serving" BY <2>3 DEF RankingInv, RankedInv
  <2> QED BY <2>1, <2>2, <2>3
<1>4. CASE UNCHANGED <<ranker, startup>>
  <2>1. RankedInv' /\ ScopeInv'
    BY <1>2, <1>4 DEF RankingInv, RankedInv, ScopeInv, RankingAt, Heavily, Selected, RankedRows, Row, LoadedBytes
  <2>2. RankingSound'
    BY <1>2, <1>4 DEF RankingInv, RankingSound, RankerHonest, CaptureBound, RankingAt, Selected, Row, Traceable, LoadedBytes
  <2> QED BY <1>1, <2>1, <2>2 DEF RankingInv
<1>5. CASE ranking.at \in {"idle", "refused"}
  <2>1. ~scope.open BY <1>5 DEF RankingInv, ScopeInv
  <2>2. scope' \in {NoCapture, [open |-> TRUE, frames |-> <<>>], [open |-> TRUE, frames |-> RankedRows']}
    BY <1>2 DEF RankingInv, ScopeInv, RankedRows, Row
  <2>3. ScopeInv' BY <1>2, <2>1, <2>2 DEF ScopeInv
  <2>4. RankedInv'
    BY <1>2, <1>5 DEF RankingInv, RankedInv, RankingAt, Heavily, Selected
  <2>5. RankingSound'
    BY <1>1, <1>2, <1>5, <2>1 DEF RankerInv, RankingSound, RankerHonest, CaptureBound, RankingAt
  <2> QED BY <1>1, <2>3, <2>4, <2>5 DEF RankingInv
<1> QED BY <1>3, <1>4, <1>5

(* Before its answer a request shows nothing.                              *)
LEMMA NotYet ==
  ASSUME RankingInv, UNCHANGED <<ranker, startup>>, ranking'.at # "answered", ScopeInv'
  PROVE  RankingSound'
BY DEF RankingInv, RankerInv, RankingSound, RankerHonest, CaptureBound, RankingAt, ScopeInv

LEMMA SameRanker == ASSUME RankerInv, UNCHANGED <<disk, ranker, startup>> PROVE RankerInv'
BY DEF RankerInv, Vouched

LEMMA Dropped ==
  ASSUME RankingInv, NEW r \in Rankings, NEW code \in RankingCodes, Refuses(r, code),
         ToSet(r.hybrid) \subseteq DOMAIN r.point,
         r.heavy # <<>> => r.user \in Canary /\ ToSet(r.heavy) \subseteq ToSet(r.hybrid)
  PROVE  RankingInv'
<1>1. /\ scope' = NoCapture /\ ranking' = [r EXCEPT !.at = "refused", !.code = code]
      /\ UNCHANGED <<disk, deploys, ranker, startup>>
  BY DEF Refuses, RankingGoes
<1>2. ScopeInv' BY <1>1 DEF ScopeInv, NoCapture
<1>3. ranking' \in Rankings /\ ranking'.at = "refused" /\ ranking'.heavy = r.heavy /\ ranking'.hybrid = r.hybrid
      /\ ranking'.point = r.point /\ ranking'.user = r.user
  BY <1>1 DEF Rankings, RankingStages
<1>4. RankedInv' BY <1>3 DEF RankedInv, RankingAt, Heavily, Selected
<1>5. RankerInv' BY <1>1, SameRanker DEF RankingInv
<1>6. RankingSound' BY <1>1, <1>2, <1>3, NotYet
<1> QED BY <1>2, <1>4, <1>5, <1>6 DEF RankingInv

LEMMA RefusesKeeps ==
  ASSUME RankingInv, NEW code \in RankingCodes, Refuses(ranking, code)
  PROVE  RankingInv'
BY Dropped DEF RankingInv, RankedInv, Heavily, Selected

LEMMA UnaskedTyped ==
  /\ Unasked \in Rankings /\ Unasked.at = "idle" /\ Unasked.code = "none" /\ Unasked.heavy = <<>> /\ Unasked.hybrid = <<>>
  /\ Unasked.point = <<>>
<1>1. <<>> \in Points
  <2>1. <<>> \in [{} -> PointVersions] /\ {} \in SUBSET Candidates OBVIOUS
  <2> QED BY <2>1 DEF Points
<1>2. NoAnswer \in RankingAnswers BY DEF NoAnswer, RankingAnswers
<1> QED BY <1>1, <1>2 DEF Unasked, Rankings, RankingStages, RankingCodes, AnyUser, Artifacts

LEMMA BeginKeeps == ASSUME RankingInv, BeginRanking PROVE RankingInv'
<1>1. PICK u \in RankUsers, capture \in BOOLEAN, vector \in BOOLEAN, set \in SUBSET Candidates :
        \E point \in [set -> PointVersions], hybrid \in {s \in SetToAllKPermutations(set) : Len(s) = Cardinality(set)} :
          LET request == [Unasked EXCEPT !.at = "retained", !.user = u, !.capture = capture, !.vector = vector,
                                      !.hybrid = hybrid, !.point = point]
          IN  IF startup.required /\ u \notin Canary THEN Refuses(request, "DEPENDENCY")
              ELSE RankingGoes(request) /\ UNCHANGED scope
  BY DEF BeginRanking
<1>2. PICK point \in [set -> PointVersions], hybrid \in SetToAllKPermutations(set) :
          LET request == [Unasked EXCEPT !.at = "retained", !.user = u, !.capture = capture, !.vector = vector,
                                      !.hybrid = hybrid, !.point = point]
          IN  IF startup.required /\ u \notin Canary THEN Refuses(request, "DEPENDENCY")
              ELSE RankingGoes(request) /\ UNCHANGED scope
  BY <1>1
<1> DEFINE request == [Unasked EXCEPT !.at = "retained", !.user = u, !.capture = capture, !.vector = vector,
                                      !.hybrid = hybrid, !.point = point]
<1>3. hybrid \in Seq(Candidates) /\ ToSet(hybrid) \subseteq set
  <2>1. IsFiniteSet(set) BY RankingAssumption, FS_Subset
  <2>2. hybrid \in Seq(set) /\ ToSet(hybrid) \subseteq set BY <2>1, PermutationOf
  <2> QED BY <2>2
<1>4. point \in Points /\ DOMAIN point = set BY DEF Points
<1>5. /\ request \in Rankings /\ request.at = "retained" /\ request.hybrid = hybrid /\ request.point = point
      /\ request.heavy = <<>> /\ request.code = "none"
  BY <1>3, <1>4, UnaskedTyped DEF Rankings, RankingStages, AnyUser
<1>6. startup.at = "serving" /\ RankingAt("idle") BY DEF BeginRanking
<1> HIDE DEF request
<1>7. CASE startup.required /\ u \notin Canary
  <2>1. Refuses(request, "DEPENDENCY") BY <1>2, <1>7 DEF request
  <2> QED BY <1>3, <1>4, <1>5, <2>1, Dropped DEF RankingCodes
<1>8. CASE ~(startup.required /\ u \notin Canary)
  <2>1. ranking' = request /\ UNCHANGED <<disk, deploys, ranker, startup, scope>> BY <1>2, <1>8 DEF request, RankingGoes
  <2>2. RankedInv' BY <1>3, <1>4, <1>5, <1>6, <2>1 DEF RankedInv, RankingAt, Heavily
  <2>3. ScopeInv' BY <1>6, <2>1 DEF RankingInv, ScopeInv, RankingAt, NoCapture
  <2>4. RankerInv' BY <2>1, SameRanker DEF RankingInv
  <2>5. RankingSound' BY <1>5, <2>1, <2>3, NotYet
  <2> QED BY <2>2, <2>3, <2>4, <2>5 DEF RankingInv
<1> QED BY <1>7, <1>8

LEMMA RetainedKeeps == ASSUME RankingInv, Retained PROVE RankingInv'
<1>1. PICK code \in {"none", "CANDIDATE_VECTORS_UNAVAILABLE"} :
       /\ code # "none" => Selected /\ ranker.at = "loaded" /\ ranking.vector /\ ranking.hybrid # <<>>
       /\ RankingGoes([ranking EXCEPT !.code = code,
                  !.at = IF ~Selected \/ code # "none" THEN "judged"
                         ELSE IF ~ranking.capture THEN "score"
                         ELSE IF ranking.hybrid = <<>> THEN "judged" ELSE "context"])
  BY DEF Retained
<1> DEFINE at == IF ~Selected \/ code # "none" THEN "judged"
                 ELSE IF ~ranking.capture THEN "score"
                 ELSE IF ranking.hybrid = <<>> THEN "judged" ELSE "context"
<1>2. /\ ranking' = [ranking EXCEPT !.code = code, !.at = at] /\ UNCHANGED <<disk, deploys, ranker, startup, scope>>
      /\ RankingAt("retained") /\ ranking \in Rankings /\ ~scope.open /\ startup.at = "serving"
  BY <1>1 DEF Retained, RankingGoes, RankingInv, RankedInv, ScopeInv, RankingAt
<1>3. at \in {"judged", "score", "context"} OBVIOUS
<1>4. /\ ranking' \in Rankings /\ ranking'.at = at /\ ranking'.code = code /\ ranking'.hybrid = ranking.hybrid
      /\ ranking'.heavy = ranking.heavy /\ ranking'.capture = ranking.capture /\ ranking'.user = ranking.user
      /\ ranking'.point = ranking.point
  BY <1>2, <1>3 DEF Rankings, RankingStages, RankingCodes
<1>5. at = "context" => Selected /\ code = "none" /\ ranking.capture /\ ranking.hybrid # <<>> OBVIOUS
<1>6. at = "score" => Selected /\ code = "none" /\ ~ranking.capture OBVIOUS
<1>7. at = "judged" /\ ~ranking.capture => (code # "none" <=> Selected) BY <1>1
<1> HIDE DEF at
<1>8. RankedInv'
  <2>1. ~Heavily /\ ToSet(ranking.hybrid) \subseteq DOMAIN ranking.point BY <1>2 DEF RankingInv, RankedInv, RankingAt
  <2>2. CASE at = "context" BY <1>2, <1>4, <1>5, <2>1, <2>2 DEF RankedInv, RankingAt, Heavily, Selected
  <2>3. CASE at = "score"
    <3>0. scope = NoCapture BY <1>2 DEF RankingInv, ScopeInv
    <3>1. scope'.open = FALSE BY <1>2, <3>0 DEF NoCapture
    <3>2. ranking'.capture = FALSE BY <1>2, <1>4, <1>6, <2>3 DEF Rankings
    <3> QED BY <1>2, <1>4, <1>6, <2>1, <2>3, <3>1, <3>2 DEF RankedInv, RankingAt, Heavily, Selected
  <2>4. CASE at = "judged" BY <1>2, <1>4, <1>7, <2>1, <2>4 DEF RankedInv, RankingAt, Heavily, Selected
  <2> QED BY <1>3, <2>2, <2>3, <2>4
<1>9. ScopeInv' BY <1>2 DEF RankingInv, ScopeInv, NoCapture
<1>10. RankerInv' BY <1>2, SameRanker DEF RankingInv
<1>11. RankingSound' BY <1>2, <1>3, <1>4, <1>9, NotYet
<1> QED BY <1>8, <1>9, <1>10, <1>11 DEF RankingInv

LEMMA ContextKeeps == ASSUME RankingInv, Context PROVE RankingInv'
<1> DEFINE refused == ranker.at # "loaded" \/ ranker.manifest = Absent \/ ~ranking.vector \/ scope.open
<1>1. CASE refused
  <2>1. Refuses(ranking, "SCORING_CAPTURE_UNAVAILABLE") BY <1>1 DEF Context
  <2> QED BY <2>1, RefusesKeeps DEF RankingCodes
<1>2. CASE ~refused
  <2>1. /\ scope' = [open |-> TRUE, frames |-> <<>>] /\ ranking' = [ranking EXCEPT !.at = "score", !.digests = LoadedBytes]
        /\ UNCHANGED <<disk, deploys, ranker, startup>> /\ RankingAt("context") /\ ranker.at = "loaded" /\ ranker.manifest # Absent
    BY <1>2 DEF Context, RankingGoes
  <2>2. ranking \in Rankings /\ LoadedBytes \in [Files -> Artifacts] BY BytesTyped DEF RankingInv, RankedInv
  <2>3. /\ ranking' \in Rankings /\ ranking'.at = "score" /\ ranking'.digests = LoadedBytes
        /\ ranking'.code = ranking.code /\ ranking'.hybrid = ranking.hybrid
        /\ ranking'.heavy = ranking.heavy /\ ranking'.capture = ranking.capture /\ ranking'.user = ranking.user
        /\ ranking'.point = ranking.point
    BY <2>1, <2>2 DEF Rankings, RankingStages
  <2>4. RankedInv' BY <2>1, <2>3 DEF RankingInv, RankedInv, RankingAt, Heavily, Selected
  <2>5. ScopeInv' BY <2>1, <2>3 DEF RankingInv, RankedInv, ScopeInv, RankingAt, Heavily, LoadedBytes
  <2>6. RankerInv' BY <2>1, SameRanker DEF RankingInv
  <2>7. RankingSound' BY <2>1, <2>3, <2>5, NotYet
  <2> QED BY <2>4, <2>5, <2>6, <2>7 DEF RankingInv
<1> QED BY <1>1, <1>2

LEMMA Framed ==
  ASSUME NEW F, NEW G PROVE [[open |-> TRUE, frames |-> F] EXCEPT !.frames = G] = [open |-> TRUE, frames |-> G]
<1> DEFINE s == [open |-> TRUE, frames |-> F]
           r == [s EXCEPT !.frames = G]
<1>1. s \in [open : {TRUE}, frames : {F, G}] OBVIOUS
<1> HIDE DEF s
<1>2. r \in [open : {TRUE}, frames : {F, G}] /\ r.frames = G /\ r.open = TRUE BY <1>1
<1> HIDE DEF r
<1>3. r = [open |-> TRUE, frames |-> G] BY <1>2
<1> QED BY <1>3 DEF r, s

LEMMA ScoreKeeps == ASSUME RankingInv, Score PROVE RankingInv'
<1> DEFINE Falls(code) == ranking' = [ranking EXCEPT !.at = "judged", !.code = code]
           Ranks(best) == ranking' = [ranking EXCEPT !.at = "judged", !.heavy = best]
<1>1. /\ RankingAt("score") /\ ranking \in Rankings /\ Selected /\ startup.at = "serving" /\ UNCHANGED <<disk, deploys, ranker, startup>>
      /\ ~Heavily /\ ranking.code = "none" /\ scope.open = ranking.capture
  BY DEF Score, RankingGoes, RankingInv, RankedInv, RankingAt
<1>2. \/ (\E code \in {"HEAVY_UNAVAILABLE", "USER_VECTOR_UNAVAILABLE", "NO_ELIGIBLE_CANDIDATES"} : Falls(code)) /\ UNCHANGED scope
      \/ /\ ranker.at = "loaded" /\ ranking.hybrid # <<>>
         /\ scope' = IF scope.open THEN [scope EXCEPT !.frames = @ \o RankedRows] ELSE scope
         /\ \/ Falls("HEAVY_SCORING_FAILED")
            \/ \E best \in SetToAllKPermutations(ToSet(ranking.hybrid)) : Len(best) = Len(ranking.hybrid) /\ Ranks(best)
  BY DEF Score, RankingGoes, RankedRows
<1>3. scope.open => [scope EXCEPT !.frames = @ \o RankedRows] = [open |-> TRUE, frames |-> RankedRows]
  <2>1. DOMAIN ranking.hybrid = 1..Len(ranking.hybrid) /\ Len(ranking.hybrid) \in Nat BY <1>1 DEF Rankings
  <2>2. RankedRows \in Seq({Row(ranking.hybrid[k]) : k \in DOMAIN ranking.hybrid}) BY <2>1 DEF RankedRows
  <2>3. <<>> \o RankedRows = RankedRows BY <2>2
  <2>4. scope.open => scope = [open |-> TRUE, frames |-> <<>>] BY <1>1 DEF RankingInv, ScopeInv, NoCapture, RankingAt
  <2> SUFFICES ASSUME scope.open PROVE [scope EXCEPT !.frames = @ \o RankedRows] = [open |-> TRUE, frames |-> RankedRows]
    OBVIOUS
  <2>5. scope.frames = <<>> BY <2>4
  <2>6. scope.frames \o RankedRows = RankedRows BY <2>3, <2>5
  <2>7. [scope EXCEPT !.frames = RankedRows] = [open |-> TRUE, frames |-> RankedRows]
    <3>1. scope = [open |-> TRUE, frames |-> <<>>] BY <2>4
    <3> QED BY <3>1, Framed
  <2> QED BY <2>6, <2>7
<1>4. UNCHANGED scope \/ (ranker.at = "loaded" /\ ranking.hybrid # <<>> /\ scope' = [open |-> TRUE, frames |-> RankedRows] /\ scope.open)
  BY <1>2, <1>3
<1>5. ASSUME NEW code \in RankingCodes \ {"none"}, Falls(code)
      PROVE  RankingInv'
  <2>1. /\ ranking' \in Rankings /\ ranking'.at = "judged" /\ ranking'.code = code /\ ranking'.hybrid = ranking.hybrid
        /\ ranking'.heavy = ranking.heavy /\ ranking'.capture = ranking.capture /\ ranking'.user = ranking.user
        /\ ranking'.point = ranking.point /\ ranking'.digests = ranking.digests
    BY <1>1, <1>5 DEF Rankings, RankingStages
  <2>2. RankedInv' BY <1>1, <2>1 DEF RankingInv, RankedInv, RankingAt, Heavily, Selected
  <2>3. RankedRows' = RankedRows BY <2>1 DEF RankedRows, Row
  <2>4. ScopeInv' BY <1>1, <1>4, <2>1, <2>3 DEF RankingInv, ScopeInv, RankingAt, Heavily, NoCapture, LoadedBytes
  <2>5. RankerInv' BY <1>1, SameRanker DEF RankingInv
  <2>6. RankingSound' BY <1>1, <2>1, <2>4, NotYet
  <2> QED BY <2>2, <2>4, <2>5, <2>6 DEF RankingInv
<1>6. ASSUME NEW best \in SetToAllKPermutations(ToSet(ranking.hybrid)), Len(best) = Len(ranking.hybrid), Ranks(best),
             ranker.at = "loaded", ranking.hybrid # <<>>,
             scope' = IF scope.open THEN [scope EXCEPT !.frames = @ \o RankedRows] ELSE scope
      PROVE  RankingInv'
  <2>1. best \in Seq(Candidates) /\ ToSet(best) \subseteq ToSet(ranking.hybrid)
    <3>1. ranking.hybrid \in Seq(Candidates) BY <1>1 DEF Rankings
    <3>2. best \in Seq(ToSet(ranking.hybrid)) /\ ToSet(best) \subseteq ToSet(ranking.hybrid) BY <3>1, Listed, PermutationOf
    <3> QED BY <3>1, <3>2, Listed
  <2>2. /\ ranking' \in Rankings /\ ranking'.at = "judged" /\ ranking'.code = ranking.code /\ ranking'.hybrid = ranking.hybrid
        /\ ranking'.heavy = best /\ ranking'.capture = ranking.capture /\ ranking'.user = ranking.user
        /\ ranking'.point = ranking.point /\ ranking'.digests = ranking.digests
    BY <1>1, <1>6, <2>1 DEF Rankings, RankingStages
  <2>3. best # <<>>
    <3>1. ranking.hybrid \in Seq(Candidates) BY <1>1 DEF Rankings
    <3> QED BY <1>6, <2>1, <3>1, EmptySeq
  <2>4. RankedInv' BY <1>1, <1>6, <2>1, <2>2, <2>3 DEF RankingInv, RankedInv, RankingAt, Heavily, Selected
  <2>5. RankedRows' = RankedRows BY <2>2 DEF RankedRows, Row
  <2>6. scope.open => scope' = [open |-> TRUE, frames |-> RankedRows] BY <1>3, <1>6
  <2>7. ScopeInv' BY <1>1, <1>4, <1>6, <2>2, <2>5, <2>6 DEF RankingInv, ScopeInv, RankingAt, Heavily, NoCapture, LoadedBytes
  <2>8. RankerInv' BY <1>1, SameRanker DEF RankingInv
  <2>9. RankingSound' BY <1>1, <2>2, <2>7, NotYet
  <2> QED BY <2>4, <2>7, <2>8, <2>9 DEF RankingInv
<1> HIDE DEF Falls, Ranks
<1> QED BY <1>2, <1>5, <1>6 DEF RankingCodes

LEMMA JudgedKeeps == ASSUME RankingInv, Judged PROVE RankingInv'
<1>1. RankingAt("judged") /\ ranking \in Rankings BY DEF Judged, RankingInv, RankedInv
<1>2. CASE scope.open /\ (~Heavily \/ Len(scope.frames) # Len(ranking.heavy))
  <2>1. Refuses(ranking, "SCORING_CAPTURE_UNAVAILABLE") BY <1>2 DEF Judged, Heavily
  <2> QED BY <2>1, RefusesKeeps DEF RankingCodes
<1>3. CASE ~(scope.open /\ (~Heavily \/ Len(scope.frames) # Len(ranking.heavy)))
  <2> DEFINE worse == \/ startup.required /\ ~Heavily
                      \/ ranking.capture /\ ~scope.open /\ (ranking.hybrid # <<>> \/ ranking.code # "none")
  <2>1. CASE worse
    <3>1. Refuses(ranking, "DEPENDENCY") BY <1>3, <2>1 DEF Judged, Heavily
    <3> QED BY <3>1, RefusesKeeps DEF RankingCodes
  <2>2. CASE ~worse
    <3>1. ranking' = [ranking EXCEPT !.at = "page"] /\ UNCHANGED <<disk, deploys, ranker, startup, scope>>
      BY <1>3, <2>2 DEF Judged, Heavily, RankingGoes
    <3>2. /\ ranking' \in Rankings /\ ranking'.at = "page" /\ ranking'.code = ranking.code /\ ranking'.hybrid = ranking.hybrid
          /\ ranking'.heavy = ranking.heavy /\ ranking'.capture = ranking.capture /\ ranking'.user = ranking.user
          /\ ranking'.point = ranking.point /\ ranking'.digests = ranking.digests
      BY <1>1, <3>1 DEF Rankings, RankingStages
    <3>3. RankedInv' BY <1>1, <1>3, <2>2, <3>1, <3>2 DEF RankingInv, RankedInv, RankingAt, Heavily, Selected
    <3>4. RankedRows' = RankedRows BY <3>2 DEF RankedRows, Row
    <3>5. ScopeInv' BY <1>1, <3>1, <3>2, <3>4 DEF RankingInv, ScopeInv, RankingAt, Heavily, NoCapture, LoadedBytes
    <3>6. RankerInv' BY <3>1, SameRanker DEF RankingInv
    <3>7. RankingSound' BY <3>1, <3>2, <3>5, NotYet
    <3> QED BY <3>3, <3>5, <3>6, <3>7 DEF RankingInv
  <2> QED BY <2>1, <2>2
<1> QED BY <1>2, <1>3

(* Among the rows of the candidates an item has but its own.               *)
LEMMA OwnFrame ==
  ASSUME RankingInv, NEW c \in ToSet(ranking.hybrid)
  PROVE  (CHOOSE f \in ToSet(RankedRows) : f.repo = c) = Row(c)
<1>1. \A k \in DOMAIN ranking.hybrid : RankedRows[k] = Row(ranking.hybrid[k]) BY DEF RankedRows
<1>2. DOMAIN RankedRows = DOMAIN ranking.hybrid BY DEF RankedRows
<1>3. \A f \in ToSet(RankedRows) : f = Row(f.repo)
  <2>1. \A d : Row(d).repo = d BY DEF Row
  <2>2. \A k \in DOMAIN ranking.hybrid : RankedRows[k] = Row(RankedRows[k].repo) BY <1>1, <2>1
  <2> QED BY <1>2, <2>2 DEF ToSet
<1>4. PICK k \in DOMAIN ranking.hybrid : ranking.hybrid[k] = c BY DEF ToSet
<1>5. Row(c) \in ToSet(RankedRows) /\ Row(c).repo = c BY <1>1, <1>2, <1>4 DEF ToSet, Row
<1> QED BY <1>3, <1>5

LEMMA AnswerKeeps == ASSUME RankingInv, Answer PROVE RankingInv'
<1> DEFINE ranked == ToSet(IF Heavily THEN ranking.heavy ELSE ranking.hybrid)
           packets(items) == IF ranking.capture THEN [k \in DOMAIN items |-> FrameOf(scope.frames, items[k])] ELSE <<>>
           reply(items) == [kind |-> IF Heavily THEN "heavy" ELSE "hybrid", items |-> items,
                            versions |-> {ranking.point[i] : i \in ToSet(items)}, packets |-> packets(items)]
<1>1. PICK items \in SetToAllKPermutations(ranked) :
        /\ scope' = NoCapture /\ UNCHANGED <<disk, deploys, ranker, startup>>
        /\ ranking' = [ranking EXCEPT !.at = "answered", !.answer = reply(items)]
  BY DEF Answer, RankingGoes, Heavily
<1>2. RankingAt("page") /\ ranking \in Rankings /\ startup.at = "serving" BY DEF Answer, RankingInv, RankedInv, RankingAt
<1>3. items \in Seq(Candidates) /\ ToSet(items) \subseteq ToSet(ranking.hybrid)
  <2>1. ranked \subseteq ToSet(ranking.hybrid) BY DEF RankingInv, RankedInv
  <2>2. ranking.hybrid \in Seq(Candidates) BY <1>2 DEF Rankings
  <2>3. IsFiniteSet(ranked) /\ ranked \subseteq Candidates BY <2>1, <2>2, Listed, FS_Subset
  <2>4. items \in Seq(ranked) /\ ToSet(items) \subseteq ranked BY <1>1, <2>3, PermutationOf
  <2> QED BY <2>1, <2>3, <2>4
<1>4. /\ DOMAIN items = 1..Len(items) /\ Len(items) \in Nat
      /\ \A k \in DOMAIN items : items[k] \in ToSet(ranking.hybrid) /\ items[k] \in ToSet(items)
  <2>1. DOMAIN items = 1..Len(items) /\ Len(items) \in Nat BY <1>3, LenProperties
  <2>2. \A k \in DOMAIN items : items[k] \in ToSet(items) BY DEF ToSet
  <2> QED BY <1>3, <2>1, <2>2
<1>5. \A c \in ToSet(ranking.hybrid) : Row(c) \in Frames /\ ranking.point[c] \in PointVersions
  <2>1. ToSet(ranking.hybrid) \subseteq Candidates BY <1>2, Listed DEF Rankings
  <2>2. \A c \in DOMAIN ranking.point : ranking.point[c] \in PointVersions BY <1>2 DEF Rankings, Points
  <2>3. ranking.user \in AnyUser BY <1>2 DEF Rankings
  <2> QED BY <2>1, <2>2, <2>3 DEF Row, Frames, RankingInv, RankedInv
<1>6. ranking.capture /\ ranking.hybrid # <<>> =>
        /\ Heavily /\ ranker.at = "loaded" /\ ranker.manifest # Absent /\ ranking.digests = LoadedBytes
        /\ \A k \in DOMAIN items : packets(items)[k] = Row(items[k])
  <2> SUFFICES ASSUME ranking.capture, ranking.hybrid # <<>>
               PROVE  /\ Heavily /\ ranker.at = "loaded" /\ ranker.manifest # Absent /\ ranking.digests = LoadedBytes
                      /\ \A k \in DOMAIN items : packets(items)[k] = Row(items[k])
    OBVIOUS
  <2>1. scope.open /\ Heavily BY <1>2 DEF RankingInv, RankedInv
  <2>2. ranker.at = "loaded" /\ ranker.manifest # Absent /\ ranking.digests = LoadedBytes /\ scope.frames = RankedRows BY <2>1 DEF RankingInv, ScopeInv
  <2>3. \A k \in DOMAIN items : FrameOf(scope.frames, items[k]) = Row(items[k])
    BY <1>4, <2>2, OwnFrame DEF FrameOf
  <2> QED BY <2>1, <2>2, <2>3
<1>7. ~(ranking.capture /\ ranking.hybrid # <<>>) => packets(items) = <<>>
  <2>1. CASE ~ranking.capture BY <2>1
  <2>2. CASE ranking.capture /\ ranking.hybrid = <<>>
    <3>1. DOMAIN items = {} BY <1>4, <2>2 DEF ToSet
    <3> QED BY <3>1
  <2> QED BY <2>1, <2>2
<1>8. packets(items) \in Seq(Frames) /\ (ranking.capture /\ ranking.hybrid # <<>> => Len(packets(items)) = Len(items))
  <2>1. CASE ranking.capture /\ ranking.hybrid # <<>>
    <3>1. packets(items) = [k \in 1..Len(items) |-> FrameOf(scope.frames, items[k])] BY <1>4, <2>1
    <3>2. \A k \in 1..Len(items) : packets(items)[k] \in Frames BY <1>4, <1>5, <1>6, <2>1
    <3> HIDE DEF packets
    <3>3. packets(items) \in [1..Len(items) -> Frames] BY <3>1, <3>2
    <3> QED BY <1>4, <3>3
  <2> QED BY <1>7, <2>1
<1> HIDE DEF packets
<1>9. reply(items) \in RankingAnswers
  BY <1>3, <1>4, <1>5, <1>8 DEF RankingAnswers
<1>10. /\ ranking' \in Rankings /\ ranking'.at = "answered" /\ ranking'.code = ranking.code /\ ranking'.hybrid = ranking.hybrid
       /\ ranking'.heavy = ranking.heavy /\ ranking'.capture = ranking.capture /\ ranking'.user = ranking.user
       /\ ranking'.point = ranking.point /\ ranking'.digests = ranking.digests /\ ranking'.answer = reply(items)
  BY <1>1, <1>2, <1>9 DEF Rankings, RankingStages
<1>11. RankedInv' BY <1>1, <1>2, <1>10 DEF RankingInv, RankedInv, RankingAt, Heavily, Selected
<1>12. ScopeInv' BY <1>1 DEF ScopeInv, NoCapture
<1>13. RankerInv' BY <1>1, SameRanker DEF RankingInv
<1>14. RankerHonest'
  <2>1. ranking'.answer.kind = IF Heavily THEN "heavy" ELSE "hybrid" BY <1>10
  <2>2. ranker.at = "loaded" => Traceable(LoadedBytes)' BY <1>1, BytesTraceable DEF RankingInv, Traceable, LoadedBytes
  <2> QED BY <1>1, <1>2, <1>10, <2>1, <2>2 DEF RankingInv, RankerInv, RankedInv, RankerHonest, RankingAt, Selected
<1>15. CaptureBound'
  <2>1. ~scope'.open BY <1>1 DEF NoCapture
  <2>2. CASE ~(ranking.capture /\ ranking.hybrid # <<>>)
    BY <1>7, <1>10, <2>1, <2>2 DEF CaptureBound
  <2>3. CASE ranking.capture /\ ranking.hybrid # <<>>
    <3>1. ranking'.answer.kind = "heavy" /\ Absent \notin Range(ranking'.digests) /\ Traceable(ranking.digests)'
      <4>1. Heavily /\ ranker.at = "loaded" /\ ranker.manifest # Absent /\ ranking.digests = LoadedBytes BY <1>6, <2>3
      <4>2. Traceable(LoadedBytes) BY <4>1, BytesTraceable DEF RankingInv
      <4>3. Traceable(ranking.digests)' BY <1>1, <1>10, <4>1, <4>2 DEF Traceable
      <4>4. \A f \in Files : LoadedBytes[f] # Absent
        <5>1. Absent \notin {ranker.manifest, ranker.model, ranker.scaler} BY <4>1 DEF RankingInv, RankerInv
        <5> QED BY <5>1, BytesTyped DEF Files, RankingInv
      <4>5. Absent \notin Range(LoadedBytes) BY <4>4 DEF Range, LoadedBytes
      <4> QED BY <1>10, <4>1, <4>3, <4>5
    <3>2. ranking'.answer.items = items /\ ranking'.answer.packets = packets(items)
          /\ ranking'.answer.versions = {ranking.point[i] : i \in ToSet(items)}
      BY <1>10
    <3>3. \A k \in DOMAIN items : packets(items)[k] = Row(items[k])' BY <1>6, <1>10, <2>3 DEF Row
    <3>4. {ranking.point[i] : i \in ToSet(items)} = {p.version : p \in ToSet(packets(items))}
      <4>1. DOMAIN packets(items) = DOMAIN items BY <1>4, <1>8, <2>3, LenProperties
      <4>2. \A k \in DOMAIN items : packets(items)[k].version = ranking.point[items[k]]
        <5>1. \A c : Row(c).version = ranking.point[c] BY DEF Row
        <5> QED BY <1>6, <2>3, <5>1
      <4> QED BY <4>1, <4>2 DEF ToSet
    <3> QED BY <1>8, <1>10, <2>1, <2>3, <3>1, <3>2, <3>3, <3>4 DEF CaptureBound
  <2> QED BY <2>2, <2>3
<1> QED BY <1>11, <1>12, <1>13, <1>14, <1>15 DEF RankingInv, RankingSound

LEMMA FinishKeeps == ASSUME RankingInv, FinishRanking PROVE RankingInv'
<1>1. ranking' = Unasked /\ UNCHANGED <<disk, deploys, ranker, startup, scope>> /\ ranking.at \in {"answered", "refused"}
  BY DEF FinishRanking, RankingGoes
<1>2. RankedInv' BY <1>1, UnaskedTyped DEF RankedInv, RankingAt, Heavily, ToSet
<1>3. ScopeInv' BY <1>1 DEF RankingInv, ScopeInv, NoCapture
<1>4. RankerInv' BY <1>1, SameRanker DEF RankingInv
<1>5. RankingSound' BY <1>1, <1>3, UnaskedTyped, NotYet
<1> QED BY <1>2, <1>3, <1>4, <1>5 DEF RankingInv

LEMMA RankingSteps == RankingInv /\ [RankingNext]_rankingVars => RankingInv'
<1> SUFFICES ASSUME RankingInv, [RankingNext]_rankingVars PROVE RankingInv' OBVIOUS
<1>1. CASE Deploy \/ Load \/ WarmUp BY <1>1, RankerMoves
<1>2. CASE ServeRanking
  <2>1. CASE GiveUp
    BY <2>1, RefusesKeeps DEF GiveUp, RankingCodes
  <2> QED
    BY <1>2, <2>1, BeginKeeps, RetainedKeeps, ContextKeeps, ScoreKeeps, JudgedKeeps, AnswerKeeps, FinishKeeps DEF ServeRanking
<1>3. CASE UNCHANGED rankingVars
  <2>1. RankerInv' /\ RankedInv' /\ ScopeInv'
    BY <1>3 DEF rankingVars, RankingInv, RankerInv, RankedInv, ScopeInv, RankingAt, Heavily, Selected, RankedRows, Row,
                Vouched, LoadedBytes
  <2>2. RankingSound'
    BY <1>3 DEF rankingVars, RankingInv, RankingSound, RankerHonest, CaptureBound, RankingAt, Selected, Row, Traceable, LoadedBytes
  <2> QED BY <2>1, <2>2 DEF RankingInv
<1> QED BY <1>1, <1>2, <1>3 DEF RankingNext

LEMMA RankingStarts == RankingInit => RankingInv
<1> SUFFICES ASSUME RankingInit PROVE RankingInv OBVIOUS
<1>1. RankerInv
  BY RankingAssumption DEF RankingInit, RankerInv, Rankers, RankerStages, Startups, Artifacts
<1>2. RankedInv BY UnaskedTyped DEF RankingInit, RankedInv, RankingAt, Heavily, ToSet
<1>3. ScopeInv BY DEF RankingInit, ScopeInv, NoCapture
<1>4. RankingSound
  BY UnaskedTyped DEF RankingInit, RankingSound, RankerHonest, CaptureBound, RankingAt, NoCapture
<1> QED BY <1>1, <1>2, <1>3, <1>4 DEF RankingInv

(* Who is served a heavy page got it from a ranker that is whole, warm and *)
(* qualified unless that was waived.  One that qualified by its digests    *)
(* has the bytes its manifest names, but for a file replaced between its   *)
(* digest and its reading; and a captured page carries the rows it was     *)
(* scored from and the digests of the bytes that were loaded, where such a *)
(* file shows: HeavyRanking's RankerService, lifespan and scoring, for any *)
(* builds, users, candidates, disks and deployments.                       *)
THEOREM RankingTheorem == RankingSpec => []RankingSound
<1>1. RankingSpec => []RankingInv BY RankingStarts, RankingSteps, PTL DEF RankingSpec
<1> QED BY <1>1, PTL DEF RankingInv

---------------------------------------------------------------------------
(* The diverse page *)

(* Min and Max of two numbers. *)
LEMMA TwoMin == ASSUME NEW a \in Int, NEW b \in Int PROVE Min({a, b}) = IF a <= b THEN a ELSE b
<1>. DEFINE m == IF a <= b THEN a ELSE b
<1>1. m \in {a, b} /\ \A y \in {a, b} : m <= y
  OBVIOUS
<1>2. \A x \in {a, b} : (\A y \in {a, b} : x <= y) => x = m
  OBVIOUS
<1>. QED BY <1>1, <1>2 DEF Min

LEMMA TwoMax == ASSUME NEW a \in Int, NEW b \in Int PROVE Max({a, b}) = IF a <= b THEN b ELSE a
<1>. DEFINE m == IF a <= b THEN b ELSE a
<1>1. m \in {a, b} /\ \A y \in {a, b} : m >= y
  OBVIOUS
<1>2. \A x \in {a, b} : (\A y \in {a, b} : x >= y) => x = m
  OBVIOUS
<1>. QED BY <1>1, <1>2 DEF Max

(* Below a member of a finite set of numbers are fewer members than in all, *)
(* and more below a greater one.                                            *)
LEMMA Least == ASSUME NEW S \in SUBSET Nat, S # {} PROVE \E x \in S : \A y \in S : x <= y
<1>1. PICK x \in S : \A y \in S : <<y, x>> \notin OpToRel(<, Nat)
  BY NatLessThanWellFounded, WFMin
<1>2. \A y \in S : ~(y < x)
  BY <1>1 DEF OpToRel
<1>. QED BY <1>2

LEMMA RankLess ==
  ASSUME NEW S \in SUBSET Nat, IsFiniteSet(S), NEW c \in S, NEW e \in S, c < e
  PROVE  Cardinality({d \in S : d < c}) < Cardinality({d \in S : d < e})
<1>. DEFINE A == {d \in S : d < c}
            B == {d \in S : d < e}
<1>0. \A d \in S : d \in Nat /\ (d < c => d < e) /\ ~(c < c)
  OBVIOUS
<1>1. A \in SUBSET B /\ c \in B /\ c \notin A /\ B \in SUBSET S
  BY <1>0
<1>2. IsFiniteSet(B)
  BY <1>1, FS_Subset
<1>3. Cardinality(A) <= Cardinality(B) /\ Cardinality(A) # Cardinality(B) /\ IsFiniteSet(A)
  BY <1>1, <1>2, FS_Subset
<1>4. Cardinality(A) \in Nat /\ Cardinality(B) \in Nat
  BY <1>2, <1>3, FS_CardinalityType
<1>. HIDE DEF A, B
<1>5. Cardinality(A) < Cardinality(B)
  BY <1>3, <1>4
<1>. QED BY <1>5 DEF A, B

LEMMA RankIn ==
  ASSUME NEW S \in SUBSET Nat, IsFiniteSet(S), NEW c \in S
  PROVE  Cardinality({d \in S : d < c}) \in 0 .. Cardinality(S) - 1
<1>. DEFINE A == {d \in S : d < c}
<1>1. A \in SUBSET S /\ c \notin A /\ A # S
  OBVIOUS
<1>2. Cardinality(A) <= Cardinality(S) /\ Cardinality(A) # Cardinality(S) /\ IsFiniteSet(A)
  BY <1>1, FS_Subset
<1>3. Cardinality(A) \in Nat /\ Cardinality(S) \in Nat
  BY <1>2, FS_CardinalityType
<1>. HIDE DEF A
<1>4. Cardinality(A) \in 0 .. Cardinality(S) - 1
  BY <1>2, <1>3
<1>. QED BY <1>4 DEF A

(* There is exactly one member of every rank. *)
LEMMA RanksDiffer ==
  ASSUME NEW S \in SUBSET Nat, IsFiniteSet(S)
  PROVE  /\ Cardinality(S) \in Nat
         /\ \A c, e \in S : Cardinality({d \in S : d < c}) = Cardinality({d \in S : d < e}) => c = e
         /\ \A k \in 0 .. Cardinality(S) - 1 : \E c \in S : Cardinality({d \in S : d < c}) = k
<1>. DEFINE size == Cardinality(S)
            rank == [c \in S |-> Cardinality({d \in S : d < c})]
<1>1. size \in Nat
  BY FS_CardinalityType
<1>4. rank \in [S -> 0 .. size - 1]
  BY RankIn
<1>5. \A c, e \in S : rank[c] = rank[e] => c = e
  <2>. SUFFICES ASSUME NEW c \in S, NEW e \in S, c # e PROVE rank[c] # rank[e]
    OBVIOUS
  <2>1. rank[c] \in Int /\ rank[e] \in Int
    BY <1>4
  <2>2. CASE c < e
    <3>1. rank[c] < rank[e] BY <2>2, RankLess
    <3>. QED BY <3>1, <2>1
  <2>3. CASE e < c
    <3>1. rank[e] < rank[c] BY <2>3, RankLess
    <3>. QED BY <3>1, <2>1
  <2>. QED BY <2>2, <2>3
<1>. HIDE DEF rank
<1>6. rank \in Injection(S, 0 .. size - 1)
  BY <1>4, <1>5 DEF Injection, IsInjective
<1>7. IsFiniteSet(0 .. size - 1) /\ Cardinality(0 .. size - 1) = size
  <2>. HIDE DEF size
  <2>1. 0 \in Int /\ size - 1 \in Int /\ (IF 0 > size - 1 THEN 0 ELSE (size - 1) - 0 + 1) = size
    BY <1>1
  <2>. QED BY <2>1, FS_Interval
<1>8. rank \in Surjection(S, 0 .. size - 1)
  BY <1>6, <1>7, FS_Injection
<1>9. \A k \in 0 .. size - 1 : \E c \in S : rank[c] = k
  BY <1>8 DEF Surjection
<1>. QED BY <1>1, <1>5, <1>9 DEF rank

(* The best n of a set are n of it, or all of it where it has no more. *)
LEMMA BestCard ==
  ASSUME NEW S \in SUBSET Nat, IsFiniteSet(S), NEW n \in Nat
  PROVE  /\ Best(S, n) \in SUBSET S /\ IsFiniteSet(Best(S, n))
         /\ Cardinality(Best(S, n)) = IF n <= Cardinality(S) THEN n ELSE Cardinality(S)
<1>. DEFINE size == Cardinality(S)
            rank == [c \in S |-> Cardinality({d \in S : d < c})]
            m == IF n <= size THEN n ELSE size
            B == Best(S, n)
            some == [c \in B |-> rank[c]]
<1>1. size \in Nat
  BY FS_CardinalityType
<1>2. B \in SUBSET S /\ B = {c \in S : rank[c] < n}
  BY DEF Best
<1>3. IsFiniteSet(B)
  BY <1>2, FS_Subset
<1>4. rank \in [S -> 0 .. size - 1]
  BY RankIn
<1>5. /\ \A c, e \in S : rank[c] = rank[e] => c = e
      /\ \A k \in 0 .. size - 1 : \E c \in S : rank[c] = k
  BY RanksDiffer
<1>. HIDE DEF rank
<1>10. m \in Nat /\ m <= size /\ m <= n
  BY <1>1
<1>11. \A c \in B : some[c] \in 0 .. m - 1
  <2>. SUFFICES ASSUME NEW c \in B PROVE rank[c] \in 0 .. m - 1
    OBVIOUS
  <2>1. rank[c] \in 0 .. size - 1 /\ rank[c] < n
    BY <1>2, <1>4
  <2>. HIDE DEF B, size
  <2>. QED BY <2>1, <1>1
<1>12. \A k \in 0 .. m - 1 : \E c \in B : some[c] = k
  <2>. SUFFICES ASSUME NEW k \in 0 .. m - 1 PROVE \E c \in B : some[c] = k
    OBVIOUS
  <2>1. k \in 0 .. size - 1 /\ k < n
    BY <1>1, <1>10
  <2>2. PICK c \in S : rank[c] = k
    BY <2>1, <1>5
  <2>. QED BY <2>1, <2>2, <1>2
<1>. HIDE DEF B, m, size
<1>13. some \in Surjection(B, 0 .. m - 1)
  BY <1>11, <1>12 DEF Surjection
<1>14. some \in Injection(B, 0 .. m - 1)
  BY <1>11, <1>5, <1>2 DEF Injection, IsInjective
<1>15. Cardinality(0 .. m - 1) = m
  BY <1>10, FS_Interval
<1>16. Cardinality(B) = m
  BY <1>3, <1>13, <1>14, <1>15, FS_Surjection
<1>. QED BY <1>2, <1>3, <1>16 DEF B, m, size

---------------------------------------------------------------------------

(* Two finite sets that share nothing. *)
LEMMA Apart ==
  ASSUME NEW S, NEW T, IsFiniteSet(S), IsFiniteSet(T), S \cap T = {}
  PROVE  /\ IsFiniteSet(S \cup T) /\ Cardinality(S \cup T) = Cardinality(S) + Cardinality(T)
         /\ Cardinality(S) \in Nat /\ Cardinality(T) \in Nat
<1>1. Cardinality(S \cap T) = 0
  BY FS_EmptySet
<1>2. Cardinality(S) \in Nat /\ Cardinality(T) \in Nat
  BY FS_CardinalityType
<1>3. IsFiniteSet(S \cup T) /\ Cardinality(S \cup T) = Cardinality(S) + Cardinality(T) - Cardinality(S \cap T)
  BY FS_Union
<1>4. Cardinality(S) + Cardinality(T) - 0 = Cardinality(S) + Cardinality(T)
  BY <1>2
<1>. QED BY <1>1, <1>2, <1>3, <1>4

LEMMA Sized ==
  /\ IsFiniteSet(Pool) /\ Pool \in SUBSET Nat /\ SemanticPool \in SUBSET Pool
  /\ Required \in Nat /\ Required <= PageLimit /\ {MaxPool, PageLimit, SearchLimit} \subseteq Nat \ {0}
  /\ Breadth \in Nat
<1>1. IsFiniteSet(Pool) /\ Pool \in SUBSET Nat /\ {MaxPool, PageLimit, SearchLimit} \subseteq Nat \ {0}
  BY DiversityAssumption
<1>2. Breadth \in Nat /\ Minimum \in Nat /\ PageLimit \in Nat
  BY DiversityAssumption
<1>3. Required \in Nat /\ Required <= PageLimit
  BY <1>2, TwoMin DEF Required
<1>. QED BY <1>1, <1>2, <1>3 DEF SemanticPool

(* One semantic candidate is kept where there is one. *)
LEMMA RoomLeft ==
  /\ Best(SemanticPool, 1) \in SUBSET SemanticPool /\ IsFiniteSet(Best(SemanticPool, 1))
  /\ Cardinality(Best(SemanticPool, 1)) \in {0, 1}
  /\ SemanticPool # {} => Best(SemanticPool, 1) # {}
  /\ PoolRoom \in Nat /\ PoolRoom + Cardinality(Best(SemanticPool, 1)) = MaxPool
<1>1. IsFiniteSet(SemanticPool) /\ SemanticPool \in SUBSET Nat
  BY Sized, FS_Subset
<1>2. Cardinality(SemanticPool) \in Nat /\ (Cardinality(SemanticPool) = 0 <=> SemanticPool = {})
  BY <1>1, FS_CardinalityType, FS_EmptySet
<1>3. /\ Best(SemanticPool, 1) \in SUBSET SemanticPool /\ IsFiniteSet(Best(SemanticPool, 1))
      /\ Cardinality(Best(SemanticPool, 1)) = IF 1 <= Cardinality(SemanticPool) THEN 1 ELSE Cardinality(SemanticPool)
  BY <1>1, BestCard
<1>4. Cardinality(Best(SemanticPool, 1)) \in {0, 1} /\ (SemanticPool # {} => Cardinality(Best(SemanticPool, 1)) = 1)
  BY <1>2, <1>3
<1>5. SemanticPool # {} => Best(SemanticPool, 1) # {}
  BY <1>4, FS_EmptySet
<1>6. MaxPool \in Nat \ {0}
  BY Sized
<1>7. PoolRoom \in Nat /\ PoolRoom + Cardinality(Best(SemanticPool, 1)) = MaxPool
  BY <1>4, <1>6 DEF PoolRoom
<1>. QED BY <1>3, <1>4, <1>5, <1>7

(* The independent candidates reserved: as many as the quota, or all. *)
LEMMA IndependentCard ==
  ASSUME Required <= PoolRoom, reserved \in SUBSET Pool
  PROVE  /\ Independent \in SUBSET (Pool \ SemanticPool) /\ IsFiniteSet(Independent)
         /\ Cardinality(Independent) \in 0 .. PoolRoom
         /\ Cardinality(Independent) >= Min({Required, Cardinality(Pool \ SemanticPool)})
<1>. DEFINE breadth == Min({Max({Breadth, Required}), PoolRoom})
            A == (Pool \ SemanticPool) \ reserved
            B == (Pool \ SemanticPool) \cap reserved
            new == Best(A, breadth)
            old == Best(B, breadth - Cardinality(new))
<1>1. breadth \in Nat /\ breadth <= PoolRoom /\ Required <= breadth
  BY Sized, RoomLeft, TwoMin, TwoMax
<1>2. IsFiniteSet(A) /\ IsFiniteSet(B) /\ A \in SUBSET Nat /\ B \in SUBSET Nat /\ A \cap B = {} /\ A \cup B = Pool \ SemanticPool
  <2>1. A \in SUBSET Pool /\ B \in SUBSET Pool /\ A \cap B = {} /\ A \cup B = Pool \ SemanticPool
    OBVIOUS
  <2>. HIDE DEF A, B
  <2>. QED BY <2>1, Sized, FS_Subset
<1>3. Independent = new \cup old
  BY DEF Independent
<1>. HIDE DEF breadth, A, B
<1>4. Cardinality(A) \in Nat /\ Cardinality(B) \in Nat /\ Cardinality(Pool \ SemanticPool) = Cardinality(A) + Cardinality(B)
  BY <1>2, Apart
<1>5. new \in SUBSET A /\ IsFiniteSet(new) /\ Cardinality(new) = IF breadth <= Cardinality(A) THEN breadth ELSE Cardinality(A)
  BY <1>1, <1>2, BestCard
<1>6. breadth - Cardinality(new) \in Nat
  BY <1>1, <1>4, <1>5
<1>. DEFINE left == breadth - Cardinality(new)
<1>7. old \in SUBSET B /\ IsFiniteSet(old) /\ Cardinality(old) = IF left <= Cardinality(B) THEN left ELSE Cardinality(B)
  BY <1>6, <1>2, BestCard
<1>. HIDE DEF old
<1>8. new \cap old = {}
  BY <1>5, <1>7, <1>2
<1>. HIDE DEF new
<1>9. IsFiniteSet(Independent) /\ Cardinality(Independent) = Cardinality(new) + Cardinality(old)
  BY <1>3, <1>8, <1>5, <1>7, Apart
<1>10. Cardinality(new) \in Nat /\ Cardinality(old) \in Nat
  BY <1>5, <1>7, FS_CardinalityType
<1>11. Cardinality(Independent) = IF breadth <= Cardinality(A) + Cardinality(B) THEN breadth ELSE Cardinality(A) + Cardinality(B)
  BY <1>1, <1>4, <1>5, <1>6, <1>7, <1>9, <1>10
<1>12. PoolRoom \in Nat /\ Required \in Nat
  BY Sized, RoomLeft
<1>13. Cardinality(Independent) \in 0 .. PoolRoom
  BY <1>1, <1>4, <1>11, <1>12
<1>14. Min({Required, Cardinality(A) + Cardinality(B)}) = IF Required <= Cardinality(A) + Cardinality(B) THEN Required ELSE Cardinality(A) + Cardinality(B)
  BY <1>4, <1>12, TwoMin
<1>15. Cardinality(Independent) >= Min({Required, Cardinality(A) + Cardinality(B)})
  BY <1>1, <1>4, <1>11, <1>12, <1>14
<1>16. Independent \in SUBSET (Pool \ SemanticPool)
  BY <1>3, <1>5, <1>7, <1>2
<1>. QED BY <1>4, <1>9, <1>13, <1>15, <1>16

(* What is reserved has its room, and has what the quota needs. *)
LEMMA ReservationCard ==
  ASSUME div.mode = "enabled" => Required <= PoolRoom, reserved \in SUBSET Pool, Cardinality(reserved) <= MaxPool
  PROVE  /\ Reservation \in SUBSET Pool /\ IsFiniteSet(Reservation) /\ Cardinality(Reservation) \in 0 .. MaxPool
         /\ div.mode = "enabled" => Best(SemanticPool, 1) \subseteq Reservation /\ Independent \subseteq Reservation
<1>0. MaxPool \in Nat
  BY Sized
<1>1. CASE div.mode # "enabled"
  <2>1. Reservation = reserved /\ IsFiniteSet(reserved)
    BY <1>1, Sized, FS_Subset DEF Reservation
  <2>2. Cardinality(reserved) \in Nat
    BY <2>1, FS_CardinalityType
  <2>. QED BY <1>0, <1>1, <2>1, <2>2
<1>2. CASE div.mode = "enabled"
  <2>. DEFINE one == Best(SemanticPool, 1)
              first == one \cup Independent
              more == Best(reserved \ first, MaxPool - Cardinality(first))
  <2>1. Reservation = first \cup more
    BY <1>2 DEF Reservation
  <2>2. one \in SUBSET SemanticPool /\ IsFiniteSet(one) /\ Cardinality(one) \in {0, 1} /\ PoolRoom \in Nat /\ PoolRoom + Cardinality(one) = MaxPool
    BY RoomLeft
  <2>3. Independent \in SUBSET (Pool \ SemanticPool) /\ IsFiniteSet(Independent) /\ Cardinality(Independent) \in 0 .. PoolRoom
    BY <1>2, IndependentCard
  <2>. HIDE DEF one
  <2>4. one \cap Independent = {}
    BY <2>2, <2>3
  <2>5. IsFiniteSet(first) /\ Cardinality(first) = Cardinality(one) + Cardinality(Independent)
    BY <2>2, <2>3, <2>4, Apart
  <2>6. Cardinality(first) \in Nat /\ MaxPool - Cardinality(first) \in Nat
    BY <1>0, <2>2, <2>3, <2>5
  <2>7. reserved \ first \in SUBSET Pool /\ first \in SUBSET Pool
    BY <2>2, <2>3, Sized
  <2>8. IsFiniteSet(reserved \ first) /\ reserved \ first \in SUBSET Nat
    BY <2>7, Sized, FS_Subset
  <2>. HIDE DEF first
  <2>9. Cardinality(reserved \ first) \in Nat
    BY <2>8, FS_CardinalityType
  <2>10. /\ more \in SUBSET (reserved \ first) /\ IsFiniteSet(more)
         /\ Cardinality(more) = IF MaxPool - Cardinality(first) <= Cardinality(reserved \ first)
                                THEN MaxPool - Cardinality(first) ELSE Cardinality(reserved \ first)
    BY <2>6, <2>8, BestCard
  <2>. HIDE DEF more
  <2>11. Cardinality(more) \in Nat /\ Cardinality(more) <= MaxPool - Cardinality(first)
    BY <2>6, <2>9, <2>10
  <2>12. first \cap more = {}
    BY <2>10
  <2>13. IsFiniteSet(Reservation) /\ Cardinality(Reservation) = Cardinality(first) + Cardinality(more)
    BY <2>1, <2>5, <2>10, <2>12, Apart
  <2>14. Cardinality(Reservation) \in 0 .. MaxPool
    BY <1>0, <2>6, <2>11, <2>13
  <2>15. Reservation \in SUBSET Pool
    BY <2>1, <2>7, <2>10
  <2>16. one \subseteq Reservation /\ Independent \subseteq Reservation
    BY <2>1 DEF first
  <2>. QED BY <2>13, <2>14, <2>15, <2>16 DEF one
<1>. QED BY <1>1, <1>2

LEMMA KeptCard ==
  ASSUME div.mode = "enabled" => Required <= PoolRoom, reserved \in SUBSET Pool, Cardinality(reserved) <= MaxPool,
         NEW pool, pool = Reservation \cup Best(Pool \ Reservation, Max({0, MaxPool - Cardinality(Reservation)}))
  PROVE  /\ pool \in SUBSET Pool /\ Cardinality(pool) <= MaxPool
         /\ div.mode = "enabled" =>
              /\ SemanticPool # {} => pool \cap SemanticPool # {}
              /\ Cardinality(pool \ SemanticPool) >= Min({Required, Cardinality(Pool \ SemanticPool)})
<1>. DEFINE room == MaxPool - Cardinality(Reservation)
            more == Best(Pool \ Reservation, Max({0, room}))
<1>0. MaxPool \in Nat /\ IsFiniteSet(Pool) /\ Pool \in SUBSET Nat
  BY Sized
<1>1. /\ Reservation \in SUBSET Pool /\ IsFiniteSet(Reservation) /\ Cardinality(Reservation) \in 0 .. MaxPool
      /\ div.mode = "enabled" => Best(SemanticPool, 1) \subseteq Reservation /\ Independent \subseteq Reservation
  BY ReservationCard
<1>2. room \in Nat /\ Max({0, room}) = room
  BY <1>0, <1>1, TwoMax
<1>3. IsFiniteSet(Pool \ Reservation) /\ Pool \ Reservation \in SUBSET Nat
  BY <1>0, FS_Subset
<1>4. Cardinality(Pool \ Reservation) \in Nat
  BY <1>3, FS_CardinalityType
<1>. HIDE DEF room
<1>5. /\ more \in SUBSET (Pool \ Reservation) /\ IsFiniteSet(more)
      /\ Cardinality(more) = IF room <= Cardinality(Pool \ Reservation) THEN room ELSE Cardinality(Pool \ Reservation)
  BY <1>2, <1>3, BestCard
<1>6. pool = Reservation \cup more
  BY DEF room
<1>. HIDE DEF more
<1>7. Reservation \cap more = {}
  BY <1>5
<1>8. Cardinality(pool) = Cardinality(Reservation) + Cardinality(more)
  BY <1>1, <1>5, <1>6, <1>7, Apart
<1>9. Cardinality(more) <= room /\ Cardinality(more) \in Nat
  BY <1>2, <1>4, <1>5
<1>10. Cardinality(pool) <= MaxPool
  BY <1>0, <1>1, <1>8, <1>9 DEF room
<1>11. pool \in SUBSET Pool
  BY <1>1, <1>5, <1>6
<1>12. ASSUME div.mode = "enabled"
       PROVE  /\ SemanticPool # {} => pool \cap SemanticPool # {}
              /\ Cardinality(pool \ SemanticPool) >= Min({Required, Cardinality(Pool \ SemanticPool)})
  <2>1. Best(SemanticPool, 1) \subseteq pool /\ Independent \subseteq pool
    BY <1>1, <1>6, <1>12
  <2>2. SemanticPool # {} => pool \cap SemanticPool # {}
    BY <2>1, RoomLeft
  <2>3. /\ Independent \in SUBSET (Pool \ SemanticPool) /\ Cardinality(Independent) \in 0 .. PoolRoom
        /\ Cardinality(Independent) >= Min({Required, Cardinality(Pool \ SemanticPool)})
    BY <1>12, IndependentCard
  <2>4. Independent \in SUBSET (pool \ SemanticPool)
    BY <2>1, <2>3
  <2>5. IsFiniteSet(pool \ SemanticPool)
    BY <1>0, <1>11, FS_Subset
  <2>6. Cardinality(Independent) <= Cardinality(pool \ SemanticPool) /\ Cardinality(pool \ SemanticPool) \in Nat
    BY <2>4, <2>5, FS_Subset, FS_CardinalityType
  <2>7. Min({Required, Cardinality(Pool \ SemanticPool)}) \in Nat
    <3>1. IsFiniteSet(Pool \ SemanticPool)
      BY <1>0, FS_Subset
    <3>2. Cardinality(Pool \ SemanticPool) \in Nat /\ Required \in Nat
      BY <3>1, FS_CardinalityType, Sized
    <3>. DEFINE n == Cardinality(Pool \ SemanticPool)
    <3>. HIDE DEF n
    <3>3. n \in Nat /\ Required \in Nat
      BY <3>2 DEF n
    <3>4. Min({Required, n}) \in Nat
      BY <3>3, TwoMin
    <3>. QED BY <3>4 DEF n
  <2>8. Cardinality(pool \ SemanticPool) >= Min({Required, Cardinality(Pool \ SemanticPool)})
    BY <2>3, <2>6, <2>7
  <2>. QED BY <2>2, <2>8
<1>. QED BY <1>10, <1>11, <1>12

---------------------------------------------------------------------------

(* What an injective sequence holds, one longer and one shorter. *)
LEMMA SetOfSeq ==
  ASSUME NEW S, NEW s \in Seq(S)
  PROVE  ToSet(s) \in SUBSET S /\ DOMAIN s = 1 .. Len(s) /\ Len(s) \in Nat
BY LenProperties, ElementOfSeq DEF ToSet

LEMMA InjectiveLength ==
  ASSUME NEW S, NEW s \in Seq(S), IsInjective(s)
  PROVE  IsFiniteSet(ToSet(s)) /\ Cardinality(ToSet(s)) = Len(s)
<1>1. s \in [1 .. Len(s) -> S] /\ DOMAIN s = 1 .. Len(s) /\ Len(s) \in Nat
  BY LenProperties
<1>2. s \in [1 .. Len(s) -> ToSet(s)] /\ \A x \in ToSet(s) : \E k \in 1 .. Len(s) : s[k] = x
  BY <1>1 DEF ToSet
<1>3. s \in Surjection(1 .. Len(s), ToSet(s)) /\ s \in Injection(1 .. Len(s), ToSet(s))
  BY <1>2 DEF Surjection, Injection
<1>4. PICK n \in Nat : n = Len(s)
  BY <1>1
<1>5. IsFiniteSet(1 .. n) /\ Cardinality(1 .. n) = n
  <2>1. 1 \in Int /\ n \in Int /\ (IF 1 > n THEN 0 ELSE n - 1 + 1) = n
    BY <1>4
  <2>. QED BY <2>1, FS_Interval
<1>. QED BY <1>3, <1>4, <1>5, FS_Surjection

LEMMA Longer ==
  ASSUME NEW S, NEW s \in Seq(S), NEW c \in S, c \notin ToSet(s), IsInjective(s)
  PROVE  /\ Append(s, c) \in Seq(S) /\ IsInjective(Append(s, c))
         /\ ToSet(Append(s, c)) = ToSet(s) \cup {c}
         /\ Len(Append(s, c)) = Len(s) + 1 /\ Append(s, c)[Len(s) + 1] = c
         /\ \A k \in DOMAIN s : k \in DOMAIN Append(s, c) /\ Append(s, c)[k] = s[k]
<1>. DEFINE t == Append(s, c)
<1>1. PICK n \in Nat : n = Len(s) /\ DOMAIN s = 1 .. n
  BY LenProperties
<1>2. t \in Seq(S) /\ Len(t) = n + 1 /\ t[n + 1] = c /\ (\A k \in 1 .. n : t[k] = s[k]) /\ DOMAIN t = 1 .. (n + 1)
  BY <1>1
<1>. HIDE DEF t
<1>3. \A k \in 1 .. n : s[k] # c
  BY <1>1 DEF ToSet
<1>4. IsInjective(t)
  <2>. SUFFICES ASSUME NEW i \in 1 .. (n + 1), NEW j \in 1 .. (n + 1), t[i] = t[j] PROVE i = j
    BY <1>2 DEF IsInjective
  <2>1. CASE i = n + 1 /\ j = n + 1
    BY <2>1
  <2>2. CASE i \in 1 .. n /\ j \in 1 .. n
    BY <2>2, <1>1, <1>2 DEF IsInjective
  <2>3. CASE i \in 1 .. n /\ j = n + 1
    BY <2>3, <1>2, <1>3
  <2>4. CASE i = n + 1 /\ j \in 1 .. n
    BY <2>4, <1>2, <1>3
  <2>. QED BY <2>1, <2>2, <2>3, <2>4
<1>5. ToSet(t) = ToSet(s) \cup {c}
  <2>1. \A k \in 1 .. (n + 1) : k \in 1 .. n \/ k = n + 1
    OBVIOUS
  <2>2. (1 .. n) \subseteq 1 .. (n + 1) /\ n + 1 \in 1 .. (n + 1)
    OBVIOUS
  <2>. QED BY <2>1, <2>2, <1>1, <1>2 DEF ToSet
<1>6. \A k \in DOMAIN s : k \in DOMAIN t /\ t[k] = s[k]
  BY <1>1, <1>2
<1>7. t \in Seq(S) /\ Len(t) = Len(s) + 1 /\ t[Len(s) + 1] = c
  BY <1>1, <1>2
<1>. QED BY <1>4, <1>5, <1>6, <1>7 DEF t

LEMMA Shorter ==
  ASSUME NEW S, NEW s \in Seq(S), s # <<>>, IsInjective(s)
  PROVE  /\ Front(s) \in Seq(S) /\ IsInjective(Front(s))
         /\ ToSet(Front(s)) = ToSet(s) \ {Last(s)} /\ Last(s) \in ToSet(s)
         /\ Len(s) \in DOMAIN s /\ Last(s) = s[Len(s)] /\ DOMAIN Front(s) = 1 .. Len(s) - 1
         /\ \A k \in DOMAIN Front(s) : k \in DOMAIN s /\ k < Len(s) /\ Front(s)[k] = s[k]
<1>. DEFINE t == Front(s)
<1>1. PICK n \in Nat : n = Len(s) /\ DOMAIN s = 1 .. n /\ n > 0
  BY LenProperties, EmptySeq
<1>2. t \in Seq(S) /\ DOMAIN t = 1 .. n - 1 /\ (\A k \in 1 .. n - 1 : t[k] = s[k])
  BY <1>1 DEF Front
<1>. HIDE DEF t
<1>3. n \in 1 .. n /\ Last(s) = s[n] /\ \A k \in 1 .. n - 1 : k \in 1 .. n /\ k < n /\ k # n
  BY <1>1 DEF Last
<1>4. IsInjective(t)
  BY <1>1, <1>2, <1>3 DEF IsInjective
<1>5. \A k \in 1 .. n : k \in 1 .. n - 1 \/ k = n
  OBVIOUS
<1>6. \A k \in 1 .. n - 1 : s[k] # s[n]
  BY <1>1, <1>3 DEF IsInjective
<1>7. ToSet(t) = ToSet(s) \ {s[n]} /\ s[n] \in ToSet(s)
  BY <1>1, <1>2, <1>3, <1>5, <1>6 DEF ToSet
<1>. QED BY <1>1, <1>2, <1>3, <1>4, <1>7 DEF t

---------------------------------------------------------------------------

Bearing(set, l) == {c \in set : l \in labels[c]}

(* What one more candidate adds to a label's count. *)
LEMMA BearingMore ==
  ASSUME NEW set, IsFiniteSet(set), NEW c, c \notin set, NEW l
  PROVE  /\ IsFiniteSet(Bearing(set, l)) /\ Cardinality(Bearing(set, l)) \in Nat
         /\ IsFiniteSet(Bearing(set \cup {c}, l))
         /\ Cardinality(Bearing(set \cup {c}, l)) = Cardinality(Bearing(set, l)) + (IF l \in labels[c] THEN 1 ELSE 0)
<1>1. Bearing(set, l) \in SUBSET set /\ c \notin Bearing(set, l)
  BY DEF Bearing
<1>2. IsFiniteSet(Bearing(set, l)) /\ Cardinality(Bearing(set, l)) \in Nat
  BY <1>1, FS_Subset, FS_CardinalityType
<1>3. CASE l \in labels[c]
  <2>1. Bearing(set \cup {c}, l) = Bearing(set, l) \cup {c}
    BY <1>3 DEF Bearing
  <2>2. IsFiniteSet(Bearing(set \cup {c}, l)) /\ Cardinality(Bearing(set \cup {c}, l)) = Cardinality(Bearing(set, l)) + 1
    <3>. DEFINE B == Bearing(set, l)
    <3>1. IsFiniteSet(B) /\ c \notin B
      BY <1>1, <1>2
    <3>. HIDE DEF B
    <3>2. IsFiniteSet(B \cup {c}) /\ Cardinality(B \cup {c}) = Cardinality(B) + 1
      BY <3>1, FS_AddElement
    <3>. QED BY <2>1, <3>2 DEF B
  <2>. QED BY <1>2, <1>3, <2>2
<1>4. CASE l \notin labels[c]
  <2>1. Bearing(set \cup {c}, l) = Bearing(set, l)
    BY <1>4 DEF Bearing
  <2>2. Cardinality(Bearing(set \cup {c}, l)) = Cardinality(Bearing(set, l)) + (IF l \in labels[c] THEN 1 ELSE 0)
    <3>1. Cardinality(Bearing(set, l)) = Cardinality(Bearing(set, l)) + 0
      BY <1>2
    <3>. QED BY <2>1, <3>1, <1>4
  <2>. QED BY <1>2, <2>1, <2>2
<1>. QED BY <1>3, <1>4

LEMMA BearingWithin ==
  ASSUME NEW set, IsFiniteSet(set), NEW part \in SUBSET set, NEW l
  PROVE  /\ Cardinality(Bearing(part, l)) <= Cardinality(Bearing(set, l))
         /\ Cardinality(Bearing(part, l)) \in Nat /\ Cardinality(Bearing(set, l)) \in Nat
<1>1. Bearing(set, l) \in SUBSET set /\ Bearing(part, l) \in SUBSET Bearing(set, l)
  BY DEF Bearing
<1>. QED BY <1>1, FS_Subset, FS_CardinalityType

DivTyped ==
  /\ div \in [phase : {"keep", "rank", "search", "fill", "ended", "failed"},
              mode : {"disabled", "shadow", "enabled"}, served : {"nothing", "baseline", "diverse"}]
  /\ reserved \in SUBSET Pool /\ Cardinality(reserved) <= MaxPool
  /\ kept \in SUBSET Pool
  /\ \A c \in Known : labels[c] \in SUBSET Labels
  /\ \A c \in Known : <<c, c>> \notin near
  /\ search \in [last : Nat, attempts : Nat, exhausted : BOOLEAN]

\* What record() counts is what is chosen, and what is chosen fits.
Booked ==
  /\ selected \in Seq(Known) /\ IsInjective(selected)
  /\ counted \in [Labels -> Nat] /\ \A l \in Labels : counted[l] = Cardinality(Bearing(Chosen, l))
  /\ Fits(Chosen)

LEMMA FitsBy == \A set : Fits(set) <=>
                  /\ \A l \in Labels : Cardinality(Bearing(set, l)) <= Cap[l]
                  /\ \A c \in set : ~Near(c, set)
BY DEF Fits, Bearing

LEMMA Finite ==
  ASSUME DivTyped
  PROVE  /\ Known \in SUBSET Pool /\ Known \in SUBSET (Nat \ {0}) /\ Explorers \in SUBSET Known
         /\ \A set \in SUBSET Known : IsFiniteSet(set) /\ Cardinality(set) \in Nat
         /\ Cap \in [Labels -> Nat \ {0}]
<1>1. Known \in SUBSET Pool /\ Pool \in SUBSET (Nat \ {0}) /\ IsFiniteSet(Pool) /\ Cap \in [Labels -> Nat \ {0}]
  BY DiversityAssumption DEF DivTyped, Known
<1>2. \A set \in SUBSET Known : IsFiniteSet(set) /\ Cardinality(set) \in Nat
  BY <1>1, FS_Subset, FS_CardinalityType
<1>. QED BY <1>1, <1>2 DEF Explorers

(* A feasible candidate fits with what is chosen; *)
LEMMA FeasibleFits ==
  ASSUME DivTyped, Booked, NEW c \in Known \ Chosen, Feasible(c)
  PROVE  Fits(Chosen \cup {c})
<1>1. Chosen \in SUBSET Known /\ IsFiniteSet(Chosen)
  BY SetOfSeq, Finite DEF Booked, Chosen
<1>2. ASSUME NEW l \in Labels PROVE Cardinality(Bearing(Chosen \cup {c}, l)) <= Cap[l]
  <2>1. /\ Cardinality(Bearing(Chosen, l)) \in Nat
        /\ Cardinality(Bearing(Chosen \cup {c}, l)) = Cardinality(Bearing(Chosen, l)) + (IF l \in labels[c] THEN 1 ELSE 0)
    BY <1>1, BearingMore
  <2>2. Cardinality(Bearing(Chosen, l)) <= Cap[l] /\ Cap[l] \in Nat
    BY FitsBy, Finite DEF Booked
  <2>3. l \in labels[c] => Cardinality(Bearing(Chosen, l)) < Cap[l]
    BY DEF Feasible, Booked
  <2>. QED BY <2>1, <2>2, <2>3
<1>3. \A d \in Chosen : ~Near(d, Chosen)
  BY FitsBy DEF Booked
<1>4. ~Near(c, Chosen) /\ <<c, c>> \notin near
  BY DEF Feasible, DivTyped
<1>5. \A d \in Chosen \cup {c} : ~Near(d, Chosen \cup {c})
  BY <1>3, <1>4 DEF Near
<1>. QED BY <1>2, <1>5, FitsBy

(* and a candidate that fits with what is chosen and more is feasible. *)
LEMMA FitsFeasible ==
  ASSUME DivTyped, Booked, NEW c \in Known \ Chosen, NEW set \in SUBSET Known, Chosen \cup {c} \subseteq set, Fits(set)
  PROVE  Feasible(c)
<1>1. Chosen \in SUBSET Known /\ IsFiniteSet(Chosen) /\ IsFiniteSet(set)
  BY SetOfSeq, Finite DEF Booked, Chosen
<1>2. ASSUME NEW l \in labels[c] PROVE counted[l] < Cap[l]
  <2>0. l \in Labels
    BY DEF DivTyped
  <2>1. /\ Cardinality(Bearing(Chosen, l)) \in Nat
        /\ Cardinality(Bearing(Chosen \cup {c}, l)) = Cardinality(Bearing(Chosen, l)) + 1
    BY <1>1, BearingMore
  <2>2. /\ Cardinality(Bearing(Chosen \cup {c}, l)) <= Cardinality(Bearing(set, l))
        /\ Cardinality(Bearing(set, l)) \in Nat
    BY <1>1, BearingWithin
  <2>3. Cardinality(Bearing(set, l)) <= Cap[l] /\ Cap[l] \in Nat
    BY <2>0, FitsBy, Finite
  <2>4. counted[l] = Cardinality(Bearing(Chosen, l))
    BY <2>0 DEF Booked
  <2>. QED BY <2>1, <2>2, <2>3, <2>4
<1>3. ~Near(c, Chosen)
  BY FitsBy DEF Near
<1>. QED BY <1>2, <1>3 DEF Feasible

(* Choosing a feasible candidate, and putting the last one back, keep the books. *)
LEMMA ChooseKeeps ==
  ASSUME DivTyped, Booked, UNCHANGED <<kept, metadata>>, NEW c \in Known \ Chosen, Feasible(c),
         selected' = Append(selected, c), counted' = Counted(c, 1)
  PROVE  Booked' /\ Chosen' = Chosen \cup {c}
<1>1. Chosen \in SUBSET Known /\ IsFiniteSet(Chosen)
  BY SetOfSeq, Finite DEF Booked, Chosen
<1>2. Known' = Known /\ labels' = labels /\ near' = near
  BY DEF Known, metadata
<1>3. selected' \in Seq(Known) /\ IsInjective(selected') /\ Chosen' = Chosen \cup {c}
  BY Longer DEF Booked, Chosen
<1>4. \A l \in Labels : counted'[l] = Cardinality(Bearing(Chosen \cup {c}, l)) /\ counted'[l] \in Nat
  <2>. SUFFICES ASSUME NEW l \in Labels
                PROVE  counted'[l] = Cardinality(Bearing(Chosen \cup {c}, l)) /\ counted'[l] \in Nat
    OBVIOUS
  <2>1. /\ Cardinality(Bearing(Chosen, l)) \in Nat
        /\ Cardinality(Bearing(Chosen \cup {c}, l)) = Cardinality(Bearing(Chosen, l)) + (IF l \in labels[c] THEN 1 ELSE 0)
    BY <1>1, BearingMore
  <2>2. counted'[l] = counted[l] + (IF l \in labels[c] THEN 1 ELSE 0)
    BY DEF Counted
  <2>3. counted[l] = Cardinality(Bearing(Chosen, l))
    BY DEF Booked
  <2>. QED BY <2>1, <2>2, <2>3
<1>5. counted' \in [Labels -> Nat]
  BY <1>4 DEF Counted
<1>6. Fits(Chosen \cup {c})
  BY FeasibleFits
<1>7. Fits(Chosen)'
  BY <1>2, <1>3, <1>6 DEF Fits, Near
<1>8. (\A l \in Labels : counted[l] = Cardinality(Bearing(Chosen, l)))'
  BY <1>2, <1>3, <1>4 DEF Bearing
<1>. QED BY <1>2, <1>3, <1>5, <1>7, <1>8 DEF Booked

LEMMA PutBackKeeps ==
  ASSUME DivTyped, Booked, UNCHANGED <<kept, metadata>>, selected # <<>>,
         selected' = Front(selected), counted' = Counted(Last(selected), -1)
  PROVE  Booked' /\ Chosen' = Chosen \ {Last(selected)} /\ Last(selected) \in Chosen
<1>. DEFINE c == Last(selected)
            rest == Chosen \ {c}
<1>1. Chosen \in SUBSET Known /\ IsFiniteSet(Chosen) /\ rest \in SUBSET Chosen /\ c \notin rest
  BY SetOfSeq, Finite DEF Booked, Chosen
<1>2. Known' = Known /\ labels' = labels /\ near' = near
  BY DEF Known, metadata
<1>3. selected' \in Seq(Known) /\ IsInjective(selected') /\ Chosen' = rest /\ c \in Chosen
  BY Shorter DEF Booked, Chosen
<1>. HIDE DEF c
<1>4. IsFiniteSet(rest) /\ rest \cup {c} = Chosen
  BY <1>1, <1>3, FS_Subset
<1>. HIDE DEF rest
<1>5. \A l \in Labels : counted'[l] = Cardinality(Bearing(rest, l)) /\ counted'[l] \in Nat
  <2>. SUFFICES ASSUME NEW l \in Labels
                PROVE  counted'[l] = Cardinality(Bearing(rest, l)) /\ counted'[l] \in Nat
    OBVIOUS
  <2>1. /\ Cardinality(Bearing(rest, l)) \in Nat
        /\ Cardinality(Bearing(Chosen, l)) = Cardinality(Bearing(rest, l)) + (IF l \in labels[c] THEN 1 ELSE 0)
    BY <1>1, <1>4, BearingMore
  <2>2. counted'[l] = counted[l] + (IF l \in labels[c] THEN -1 ELSE 0)
    BY DEF Counted, c
  <2>3. counted[l] = Cardinality(Bearing(Chosen, l))
    BY DEF Booked
  <2>. QED BY <2>1, <2>2, <2>3
<1>6. counted' \in [Labels -> Nat]
  BY <1>5 DEF Counted
<1>7. Fits(rest)
  <2>1. \A l \in Labels : Cardinality(Bearing(rest, l)) <= Cap[l]
    <3>. SUFFICES ASSUME NEW l \in Labels PROVE Cardinality(Bearing(rest, l)) <= Cap[l]
      OBVIOUS
    <3>1. Cardinality(Bearing(Chosen, l)) <= Cap[l] /\ Cap[l] \in Nat
      BY FitsBy, Finite DEF Booked
    <3>. QED BY <3>1, <1>1, BearingWithin
  <2>2. \A d \in rest : ~Near(d, rest)
    BY <1>1, FitsBy DEF Near, Booked
  <2>. QED BY <2>1, <2>2, FitsBy
<1>8. Fits(Chosen)'
  BY <1>2, <1>3, <1>7 DEF Fits, Near
<1>9. (\A l \in Labels : counted[l] = Cardinality(Bearing(Chosen, l)))'
  BY <1>2, <1>3, <1>5 DEF Bearing
<1>10. Booked'
  BY <1>2, <1>3, <1>6, <1>8, <1>9 DEF Booked
<1>. QED BY <1>3, <1>10 DEF c, rest

---------------------------------------------------------------------------

(* The search tries the explorers in order: a set of them is behind it     *)
(* where its first candidate that is not chosen was tried beside the same  *)
(* choices before.                                                         *)
Behind(set) == \E x \in set \ Chosen : x <= search.last /\ {c \in set : c < x} = {c \in Chosen : c < x}

Quota(set) == Cardinality(set) = Required /\ Fits(set)

Sought ==
  /\ Chosen \subseteq Explorers /\ \A c \in Chosen : c <= search.last
  /\ \A i, j \in DOMAIN selected : i < j => selected[i] < selected[j]
  /\ \A set \in SUBSET Explorers : Quota(set) => ~Behind(set)

LEMMA QuotaKept ==
  ASSUME UNCHANGED <<source, kept, metadata>>
  PROVE  /\ Known' = Known /\ SemanticPool' = SemanticPool /\ Explorers' = Explorers /\ Required' = Required
         /\ \A set : Quota(set)' <=> Quota(set)
BY DEF Known, SemanticPool, Explorers, Required, Quota, Fits, Near, metadata

(* The first explorer ahead. *)
LEMMA FirstAhead ==
  ASSUME DivTyped, Ahead # {}
  PROVE  Min(Ahead) \in Explorers /\ Min(Ahead) > search.last /\ Min(Ahead) \in Nat
         /\ \A x \in Explorers : x > search.last => Min(Ahead) <= x
<1>1. Ahead \in SUBSET Nat
  BY Finite DEF Ahead
<1>2. \E x \in Ahead : \A y \in Ahead : x <= y
  BY <1>1, Least
<1>3. Min(Ahead) \in Ahead /\ \A y \in Ahead : Min(Ahead) <= y
  BY <1>2 DEF Min
<1>. QED BY <1>1, <1>3 DEF Ahead

(* What is tried and not chosen belongs to no quota beside the choices. *)
LEMMA TryKeeps ==
  ASSUME DivTyped, Booked, Sought, Try
  PROVE  Booked' /\ Sought'
<1>. DEFINE c == Min(Ahead)
<1>0. UNCHANGED <<source, kept, metadata>> /\ Ahead # {} /\ Len(selected) < Required
  BY DEF Try, Searching
<1>1. /\ c \in Explorers /\ c > search.last /\ c \in Nat
      /\ \A x \in Explorers : x > search.last => c <= x
  BY <1>0, FirstAhead
<1>2. /\ search.last \in Nat /\ search'.last = c
  BY DEF Try, DivTyped
<1>3. /\ Known' = Known /\ Explorers' = Explorers /\ \A set : Quota(set)' <=> Quota(set)
  BY <1>0, QuotaKept
<1>4. Explorers \in SUBSET Nat /\ Explorers \in SUBSET Known /\ Chosen \subseteq Explorers
  BY Finite DEF Sought
<1>5. \A d \in Chosen : d < c /\ d # c
  BY <1>1, <1>2, <1>4 DEF Sought
<1>6. c \notin Chosen /\ c \in Known
  BY <1>1, <1>4, <1>5
<1>7. CASE Feasible(c) /\ Cardinality(Ahead) > Required - Len(selected) - 1
  <2>1. selected' = Append(selected, c) /\ counted' = Counted(c, 1)
    BY <1>7 DEF Try
  <2>2. Booked' /\ Chosen' = Chosen \cup {c}
    BY <1>0, <1>6, <1>7, <2>1, ChooseKeeps
  <2>3. \A d \in Chosen' : d \in Explorers /\ d <= search'.last
    BY <1>1, <1>2, <1>4, <1>5, <2>2
  <2>4. \A i, j \in DOMAIN selected' : i < j => selected'[i] < selected'[j]
    <3>1. selected \in Seq(Known) /\ IsInjective(selected)
      BY DEF Booked
    <3>2. PICK n \in Nat : n = Len(selected) /\ DOMAIN selected = 1 .. n
      BY <3>1, SetOfSeq
    <3>3. Len(selected') = n + 1 /\ selected'[n + 1] = c /\ DOMAIN selected' = 1 .. (n + 1) /\ \A k \in 1 .. n : selected'[k] = selected[k]
      <4>1. /\ selected' \in Seq(Known) /\ Len(selected') = Len(selected) + 1 /\ selected'[Len(selected) + 1] = c
            /\ \A k \in DOMAIN selected : selected'[k] = selected[k]
        BY <3>1, <1>6, <2>1, Longer DEF Chosen
      <4>2. DOMAIN selected' = 1 .. Len(selected')
        BY <4>1, SetOfSeq
      <4>. QED BY <3>2, <4>1, <4>2
    <3>4. \A k \in 1 .. n : selected[k] < c
      BY <3>2, <1>5 DEF Chosen, ToSet
    <3>5. \A i, j \in 1 .. n : i < j => selected[i] < selected[j]
      BY <3>2 DEF Sought
    <3>. SUFFICES ASSUME NEW i \in 1 .. (n + 1), NEW j \in 1 .. (n + 1), i < j PROVE selected'[i] < selected'[j]
      BY <3>3
    <3>6. i \in 1 .. n /\ (j \in 1 .. n \/ j = n + 1)
      OBVIOUS
    <3>. QED BY <3>3, <3>4, <3>5, <3>6
  <2>5. ASSUME NEW set \in SUBSET Explorers, Quota(set), Behind(set)' PROVE FALSE
    <3>1. PICK x \in set \ Chosen' : x <= search'.last /\ {d \in set : d < x} = {d \in Chosen' : d < x}
      BY <2>5 DEF Behind
    <3>2. x \in set \ Chosen /\ x # c /\ x <= c /\ x \in Explorers /\ x \in Nat
      BY <3>1, <1>2, <1>4, <2>2
    <3>3. x <= search.last
      BY <3>2, <1>1, <1>2
    <3>4. {d \in Chosen' : d < x} = {d \in Chosen : d < x}
      BY <2>2, <3>2, <1>1
    <3>5. Behind(set)
      BY <3>1, <3>2, <3>3, <3>4 DEF Behind
    <3>. QED BY <2>5, <3>5 DEF Sought
  <2>6. (\A set \in SUBSET Explorers : Quota(set) => ~Behind(set))'
    BY <1>3, <2>5
  <2>7. (Chosen \subseteq Explorers /\ \A d \in Chosen : d <= search.last)'
    BY <1>3, <2>3
  <2>. QED BY <2>2, <2>4, <2>6, <2>7 DEF Sought
<1>8. CASE ~(Feasible(c) /\ Cardinality(Ahead) > Required - Len(selected) - 1)
  <2>1. selected' = selected /\ counted' = counted /\ Chosen' = Chosen
    BY <1>8 DEF Try, Chosen
  <2>2. Booked'
    <3>1. labels' = labels /\ near' = near
      BY <1>0 DEF metadata
    <3>. QED BY <3>1, <1>3, <2>1 DEF Booked, Fits, Near, Bearing
  <2>3. \A d \in Chosen' : d \in Explorers /\ d <= search'.last
    BY <1>1, <1>2, <1>4, <1>5, <2>1
  <2>5. ASSUME NEW set \in SUBSET Explorers, Quota(set), Behind(set)' PROVE FALSE
    <3>1. PICK x \in set \ Chosen : x <= c /\ {d \in set : d < x} = {d \in Chosen : d < x}
      BY <2>5, <2>1, <1>2 DEF Behind
    <3>2. ~(x <= search.last)
      BY <2>5, <3>1 DEF Behind, Sought
    <3>3. x \in Explorers /\ x \in Nat
      BY <3>1, <1>4
    <3>4. x = c
      BY <3>1, <3>2, <3>3, <1>1, <1>2
    <3>5. c \in set /\ {d \in set : d < c} = Chosen
      BY <3>1, <3>4, <1>5
    <3>6. Chosen \cup {c} \subseteq set /\ set \in SUBSET Known /\ Fits(set) /\ Cardinality(set) = Required
      BY <3>5, <1>4, <2>5 DEF Quota
    <3>7. Feasible(c)
      BY <3>6, <1>6, FitsFeasible
    <3>8. set \subseteq Chosen \cup Ahead
      <4>. SUFFICES ASSUME NEW d \in set, ~(d < c) PROVE d \in Ahead
        BY <3>5
      <4>1. d \in Nat /\ d \in Explorers
        BY <1>4
      <4>. QED BY <4>1, <1>1, <1>2 DEF Ahead
    <3>9. IsFiniteSet(Ahead) /\ IsFiniteSet(Chosen) /\ Chosen \cap Ahead = {}
      <4>1. Ahead \in SUBSET Known /\ Chosen \in SUBSET Known
        BY <1>4 DEF Ahead
      <4>2. \A d \in Chosen : ~(d > search.last)
        BY <1>2, <1>4 DEF Sought
      <4>. QED BY <4>1, <4>2, Finite DEF Ahead
    <3>10. /\ IsFiniteSet(Chosen \cup Ahead) /\ Cardinality(Chosen \cup Ahead) = Cardinality(Chosen) + Cardinality(Ahead)
           /\ Cardinality(Chosen) \in Nat /\ Cardinality(Ahead) \in Nat
      BY <3>9, Apart
    <3>11. Cardinality(set) <= Cardinality(Chosen \cup Ahead)
      BY <3>8, <3>10, FS_Subset
    <3>12. Cardinality(Chosen) = Len(selected)
      BY InjectiveLength DEF Booked, Chosen
    <3>13. Cardinality(Ahead) <= Required - Len(selected) - 1
      <4>1. Required \in Nat /\ Len(selected) \in Nat
        BY Sized, SetOfSeq DEF Booked
      <4>. QED BY <4>1, <3>7, <3>10, <1>8
    <3>14. Required \in Nat /\ Len(selected) \in Nat
      BY Sized, SetOfSeq DEF Booked
    <3>. QED BY <3>6, <3>10, <3>11, <3>12, <3>13, <3>14
  <2>6. (\A set \in SUBSET Explorers : Quota(set) => ~Behind(set))'
    BY <1>3, <2>5
  <2>7. (Chosen \subseteq Explorers /\ \A d \in Chosen : d <= search.last)'
    BY <1>3, <2>3
  <2>8. (\A i, j \in DOMAIN selected : i < j => selected[i] < selected[j])'
    BY <2>1 DEF Sought
  <2>. QED BY <2>2, <2>6, <2>7, <2>8 DEF Sought
<1>. QED BY <1>7, <1>8

LEMMA BacktrackKeeps ==
  ASSUME DivTyped, Booked, Sought, Backtrack
  PROVE  Booked' /\ Sought'
<1>. DEFINE y == Last(selected)
<1>0. UNCHANGED <<source, kept, metadata>> /\ Ahead = {} /\ Len(selected) < Required /\ selected # <<>>
      /\ selected' = Front(selected) /\ counted' = Counted(y, -1)
  BY DEF Backtrack, Searching
<1>1. Booked' /\ Chosen' = Chosen \ {y} /\ y \in Chosen
  BY <1>0, PutBackKeeps
<1>2. /\ search.last \in Nat /\ search'.last = y
  BY DEF Backtrack, DivTyped
<1>3. /\ Known' = Known /\ Explorers' = Explorers /\ \A set : Quota(set)' <=> Quota(set)
  BY <1>0, QuotaKept
<1>4. Explorers \in SUBSET Nat /\ Explorers \in SUBSET Known /\ Chosen \subseteq Explorers /\ y \in Nat
  BY <1>1, Finite DEF Sought
<1>5. /\ \A k \in DOMAIN selected' : k \in DOMAIN selected /\ k < Len(selected) /\ selected'[k] = selected[k]
      /\ Len(selected) \in DOMAIN selected /\ selected[Len(selected)] = y
  BY <1>0, Shorter DEF Booked
<1>6. \A d \in Chosen' : d < y
  <2>. SUFFICES ASSUME NEW k \in DOMAIN selected' PROVE selected'[k] < y
    BY DEF Chosen, ToSet
  <2>. QED BY <1>5 DEF Sought
<1>7. \A x \in Explorers : x <= search.last
  BY <1>0, <1>2, <1>4 DEF Ahead
<1>8. ASSUME NEW set \in SUBSET Explorers, Quota(set), Behind(set)' PROVE FALSE
  <2>1. PICK x \in set \ Chosen' : x <= y /\ {d \in set : d < x} = {d \in Chosen' : d < x}
    BY <1>8, <1>2 DEF Behind
  <2>2. x \in Nat /\ x <= search.last
    BY <1>4, <1>7
  <2>3. {d \in Chosen' : d < x} = {d \in Chosen : d < x}
    BY <1>1, <1>4, <2>1, <2>2
  <2>4. x = y
    <3>. SUFFICES ASSUME x # y PROVE FALSE
      OBVIOUS
    <3>1. x \notin Chosen
      BY <1>1, <2>1
    <3>2. Behind(set)
      BY <2>1, <2>2, <2>3, <3>1 DEF Behind
    <3>. QED BY <1>8, <3>2 DEF Sought
  <2>5. Chosen \subseteq set /\ \A d \in set : d <= y => d \in Chosen
    <3>1. \A d \in Chosen : d = y \/ d < y
      BY <1>1, <1>6
    <3>2. \A d \in set : d \in Nat
      BY <1>4
    <3>3. \A d : d \in set /\ d < y <=> d \in Chosen /\ d < y
      BY <2>1, <2>3, <2>4
    <3>4. y \in set
      BY <2>1, <2>4
    <3>5. Chosen \subseteq set
      BY <3>1, <3>3, <3>4
    <3>6. ASSUME NEW d \in set, d <= y PROVE d \in Chosen
      <4>1. d < y \/ d = y
        BY <3>2, <3>6, <1>4
      <4>. QED BY <4>1, <3>3, <1>1
    <3>. QED BY <3>5, <3>6
  <2>6. set # Chosen
    <3>1. Cardinality(Chosen) = Len(selected) /\ Len(selected) \in Nat /\ Required \in Nat
      BY InjectiveLength, SetOfSeq, Sized DEF Booked, Chosen
    <3>. QED BY <3>1, <1>0, <1>8 DEF Quota
  <2>7. PICK z \in set \ Chosen : \A d \in set \ Chosen : z <= d
    <3>1. set \ Chosen \in SUBSET Nat /\ set \ Chosen # {}
      BY <1>4, <2>5, <2>6
    <3>. QED BY <3>1, Least
  <2>8. z \in Nat /\ z > y /\ z <= search.last
    BY <1>4, <1>7, <2>5, <2>7
  <2>9. {d \in set : d < z} = {d \in Chosen : d < z}
    <3>1. \A d \in set : d < z => d \in Chosen
      <4>1. \A d \in set : d \in Nat
        BY <1>4
      <4>. QED BY <4>1, <2>7, <2>8
    <3>. QED BY <3>1, <2>5
  <2>10. Behind(set)
    BY <2>7, <2>8, <2>9 DEF Behind
  <2>. QED BY <1>8, <2>10 DEF Sought
<1>9. (\A set \in SUBSET Explorers : Quota(set) => ~Behind(set))'
  BY <1>3, <1>8
<1>10. (Chosen \subseteq Explorers /\ \A d \in Chosen : d <= search.last)'
  <2>1. \A d \in Chosen' : d \in Explorers /\ d \in Nat
    BY <1>1, <1>4
  <2>2. \A d \in Chosen' : d <= y
    BY <2>1, <1>4, <1>6
  <2>. QED BY <2>1, <2>2, <1>2, <1>3
<1>11. (\A i, j \in DOMAIN selected : i < j => selected[i] < selected[j])'
  BY <1>5 DEF Sought
<1>. QED BY <1>1, <1>9, <1>10, <1>11 DEF Sought

---------------------------------------------------------------------------

NoQuota == \A set \in SUBSET Explorers : ~Quota(set)

\* A diverse page holds its quota and is short only where nothing fits.
PageHolds ==
  /\ div.mode = "enabled" /\ unknown = {} /\ Explored >= Required
  /\ Len(selected) < PageLimit => \A c \in Known \ Chosen : ~Fits(Chosen \cup {c})

Empty == selected = <<>> /\ counted = [l \in Labels |-> 0]

Blank == /\ Empty /\ search.last = 0
         /\ \A c \in Pool : labels[c] = {}
         /\ near = {} /\ unknown = {}

DivInv ==
  /\ DivTyped /\ Booked /\ PoolBalanced
  /\ div.phase \in {"keep", "rank"} => Blank
  /\ div.phase = "search" => Sought
  /\ div.phase = "fill" /\ Short /\ ~search.exhausted => NoQuota
  /\ div.served = "diverse" => div.phase = "ended" /\ PageHolds

LEMMA DivFollows == DivInv => PoolBalanced /\ QuotaHonest
<1>. SUFFICES ASSUME DivInv PROVE PoolBalanced /\ QuotaHonest
  OBVIOUS
<1>1. Fits(Chosen) /\ (Len(selected) > 0 => IsInjective(selected))
  BY DEF DivInv, Booked
<1>2. div.phase = "fill" /\ Short /\ ~search.exhausted =>
        \A set \in SUBSET (Known \ SemanticPool) : Cardinality(set) = Required => ~Fits(set)
  BY DEF DivInv, NoQuota, Quota, Explorers
<1>3. div.served = "diverse" =>
        /\ div.mode = "enabled" /\ unknown = {} /\ Explored >= Required
        /\ Len(selected) < PageLimit => \A c \in Known \ Chosen : ~Fits(Chosen \cup {c})
  BY DEF DivInv, PageHolds
<1>4. PoolBalanced
  BY DEF DivInv
<1>. QED BY <1>1, <1>2, <1>3, <1>4 DEF QuotaHonest

LEMMA NothingChosen == Empty => Booked /\ Chosen = {}
<1>. SUFFICES ASSUME Empty PROVE Booked /\ Chosen = {}
  OBVIOUS
<1>1. Chosen = {} /\ selected \in Seq(Known) /\ IsInjective(selected)
  BY DEF Chosen, ToSet, IsInjective, Empty
<1>2. \A l \in Labels : Bearing(Chosen, l) = {}
  BY <1>1 DEF Bearing
<1>3. \A l \in Labels : Cardinality(Bearing(Chosen, l)) = 0 /\ counted[l] = 0 /\ Cap[l] \in Nat
  BY <1>2, FS_EmptySet, DiversityAssumption DEF Empty
<1>4. Fits(Chosen)
  <2>1. \A l \in Labels : Cardinality(Bearing(Chosen, l)) <= Cap[l]
    BY <1>3
  <2>. QED BY <1>1, <2>1, FitsBy
<1>5. counted \in [Labels -> Nat]
  BY DEF Empty
<1>. QED BY <1>1, <1>3, <1>4, <1>5 DEF Booked

LEMMA NothingChosenNext == Empty' => Booked' /\ Chosen' = {}
<1>1. (Empty => Booked /\ Chosen = {})'
  BY NothingChosen, PTL
<1>. QED BY <1>1

LEMMA DivStarts == DiversityInit => DivInv
<1>. SUFFICES ASSUME DiversityInit PROVE DivInv
  OBVIOUS
<1>1. /\ div.phase = "keep" /\ div.served = "nothing"
      /\ div \in [phase : {"keep", "rank", "search", "fill", "ended", "failed"},
                  mode : {"disabled", "shadow", "enabled"}, served : {"nothing", "baseline", "diverse"}]
  BY DEF DiversityInit
<1>2. Booked
  BY NothingChosen DEF DiversityInit, Empty
<1>3. DivTyped
  <2>1. Known = {} /\ kept = {} /\ search \in [last : Nat, attempts : Nat, exhausted : BOOLEAN]
    BY DEF DiversityInit, Known
  <2>2. reserved \in SUBSET Pool /\ Cardinality(reserved) <= MaxPool
    BY DEF DiversityInit
  <2>. QED BY <1>1, <2>1, <2>2 DEF DivTyped
<1>4. Blank
  BY DEF DiversityInit, Blank, Empty
<1>5. PoolBalanced
  BY <1>1 DEF PoolBalanced
<1>. QED BY <1>1, <1>2, <1>3, <1>4, <1>5 DEF DivInv

(* What the books rest on stands still. *)
LEMMA BookedStays ==
  ASSUME Booked, UNCHANGED <<kept, metadata, selected, counted>>
  PROVE  Booked' /\ Chosen' = Chosen
<1>1. Known' = Known /\ Chosen' = Chosen /\ labels' = labels /\ near' = near
  BY DEF Known, Chosen, metadata
<1>. QED BY <1>1 DEF Booked, Fits, Near, Bearing

LEMMA TypedStays ==
  ASSUME DivTyped, UNCHANGED <<kept, metadata, reserved>>,
         div' \in [phase : {"keep", "rank", "search", "fill", "ended", "failed"},
                   mode : {"disabled", "shadow", "enabled"}, served : {"nothing", "baseline", "diverse"}],
         search' \in [last : Nat, attempts : Nat, exhausted : BOOLEAN]
  PROVE  DivTyped'
BY DEF DivTyped, Known, metadata

(* The pool stays balanced once it is made. *)
LEMMA BalancedStays ==
  ASSUME PoolBalanced, UNCHANGED <<source, kept>>, div.phase \notin {"keep", "failed"}, div'.mode = div.mode
  PROVE  PoolBalanced'
BY DEF PoolBalanced, SemanticPool, Required

LEMMA KeepKeeps == ASSUME DivInv, Keep PROVE DivInv'
<1>1. /\ div.phase = "keep" /\ Blank /\ div.served # "diverse"
      /\ UNCHANGED <<source, metadata, selected, counted, search>> /\ reserved' = {}
      /\ DivTyped /\ Booked
  BY DEF DivInv, Keep
<1>2. div'.mode = div.mode /\ div'.served = div.served /\ div'.phase \in {"rank", "failed"}
      /\ div' \in [phase : {"keep", "rank", "search", "fill", "ended", "failed"},
                   mode : {"disabled", "shadow", "enabled"}, served : {"nothing", "baseline", "diverse"}]
  BY <1>1 DEF Keep, DivTyped
<1>3. Required' = Required /\ SemanticPool' = SemanticPool
  BY <1>1 DEF Required, SemanticPool
<1>4. kept' \in SUBSET Pool /\ (div'.phase # "failed" => PoolBalanced')
  <2>1. CASE div.mode = "enabled" /\ Required > PoolRoom
    BY <2>1, <1>1 DEF Keep, DivTyped
  <2>2. CASE ~(div.mode = "enabled" /\ Required > PoolRoom)
    <3>1. kept' = Reservation \cup Best(Pool \ Reservation, Max({0, MaxPool - Cardinality(Reservation)}))
      BY <2>2 DEF Keep
    <3>2. div.mode = "enabled" => Required <= PoolRoom
      BY <2>2, Sized, RoomLeft
    <3>3. reserved \in SUBSET Pool /\ Cardinality(reserved) <= MaxPool
      BY <1>1 DEF DivTyped
    <3>4. /\ kept' \in SUBSET Pool /\ Cardinality(kept') <= MaxPool
          /\ div.mode = "enabled" =>
               /\ SemanticPool # {} => kept' \cap SemanticPool # {}
               /\ Cardinality(kept' \ SemanticPool) >= Min({Required, Cardinality(Pool \ SemanticPool)})
      BY <3>1, <3>2, <3>3, KeptCard
    <3>. QED BY <3>4, <1>2, <1>3 DEF PoolBalanced
  <2>. QED BY <2>1, <2>2
<1>5. PoolBalanced'
  BY <1>4 DEF PoolBalanced
<1>6. Blank' /\ Empty'
  BY <1>1 DEF Blank, Empty, metadata
<1>7. DivTyped'
  <2>1. reserved' \in SUBSET Pool /\ Cardinality(reserved') <= MaxPool
    BY <1>1, Sized, FS_EmptySet
  <2>2. \A c \in Known' : labels'[c] \in SUBSET Labels /\ <<c, c>> \notin near'
    BY <1>4, <1>6 DEF Known, Blank
  <2>3. search' \in [last : Nat, attempts : Nat, exhausted : BOOLEAN]
    BY <1>1 DEF DivTyped
  <2>. QED BY <1>2, <1>4, <2>1, <2>2, <2>3 DEF DivTyped
<1>8. Booked'
  BY <1>6, NothingChosenNext
<1>. QED BY <1>1, <1>2, <1>5, <1>6, <1>7, <1>8 DEF DivInv

LEMMA BaselineTyped ==
  ASSUME DivTyped
  PROVE  /\ Baseline \in [phase : {"keep", "rank", "search", "fill", "ended", "failed"},
                         mode : {"disabled", "shadow", "enabled"}, served : {"nothing", "baseline", "diverse"}]
         /\ Baseline.phase \in {"ended", "failed"} /\ Baseline.mode = div.mode
         /\ Baseline.served = "diverse" => Baseline.phase = "failed" /\ div.served = "diverse"
BY DEF DivTyped, Baseline

(* A request that ends with no diverse page. *)
LEMMA EndedKeeps ==
  ASSUME DivInv, div.phase \in {"rank", "search", "fill"}, UNCHANGED <<source, reserved, kept, metadata, selected, counted, search>>,
         div' = Baseline \/ div' = [div EXCEPT !.phase = "failed"]
  PROVE  DivInv'
<1>1. DivTyped /\ Booked /\ PoolBalanced /\ div.served # "diverse"
  BY DEF DivInv
<1>2. /\ div' \in [phase : {"keep", "rank", "search", "fill", "ended", "failed"},
                   mode : {"disabled", "shadow", "enabled"}, served : {"nothing", "baseline", "diverse"}]
      /\ div'.phase \in {"ended", "failed"} /\ div'.mode = div.mode /\ div'.served # "diverse"
  <2>1. CASE div' = Baseline
    BY <2>1, <1>1, BaselineTyped
  <2>2. CASE div' = [div EXCEPT !.phase = "failed"]
    BY <2>2, <1>1 DEF DivTyped
  <2>. QED BY <2>1, <2>2
<1>3. search' \in [last : Nat, attempts : Nat, exhausted : BOOLEAN]
  BY <1>1 DEF DivTyped
<1>4. DivTyped'
  BY <1>1, <1>2, <1>3, TypedStays
<1>5. Booked'
  BY <1>1, BookedStays
<1>6. PoolBalanced'
  BY <1>1, <1>2, BalancedStays
<1>. QED BY <1>2, <1>4, <1>5, <1>6 DEF DivInv

LEMMA RankPoolKeeps == ASSUME DivInv, RankPool PROVE DivInv'
<1>1. div.phase = "rank" /\ Blank /\ DivTyped /\ PoolBalanced /\ div.served # "diverse" /\ UNCHANGED <<source, reserved, kept, selected, counted, search>>
  BY DEF DivInv, RankPool
<1>2. CASE div' = Baseline /\ UNCHANGED metadata
  BY <1>1, <1>2, EndedKeeps
<1>3. CASE /\ unknown' \in {u \in SUBSET kept : Cardinality(u) <= 1}
           /\ labels' \in [kept \ unknown' -> SUBSET Labels]
           /\ near' \in {n \in SUBSET {p \in (kept \ unknown') \X (kept \ unknown') : p[1] < p[2]} :
                          Cardinality(n) <= MaxNear}
           /\ div' = [div EXCEPT !.phase = "search"]
  <2>1. Empty' /\ search'.last = 0
    BY <1>1 DEF Blank, Empty
  <2>2. Booked' /\ Chosen' = {}
    BY <2>1, NothingChosenNext
  <2>3. DivTyped'
    <3>1. Known' = kept \ unknown' /\ kept \in SUBSET Pool
      BY <1>1 DEF Known, DivTyped
    <3>2. \A c \in Known' : labels'[c] \in SUBSET Labels
      BY <1>3, <3>1
    <3>3. \A c \in Known' : <<c, c>> \notin near'
      <4>. SUFFICES ASSUME NEW c \in Known', <<c, c>> \in near' PROVE FALSE
        OBVIOUS
      <4>1. <<c, c>>[1] < <<c, c>>[2] /\ c \in Nat
        BY <1>3, <3>1, Sized
      <4>. QED BY <4>1
    <3>4. /\ div' \in [phase : {"keep", "rank", "search", "fill", "ended", "failed"},
                       mode : {"disabled", "shadow", "enabled"}, served : {"nothing", "baseline", "diverse"}]
          /\ search' \in [last : Nat, attempts : Nat, exhausted : BOOLEAN]
          /\ reserved' \in SUBSET Pool /\ Cardinality(reserved') <= MaxPool /\ kept' \in SUBSET Pool
      BY <1>1, <1>3 DEF DivTyped
    <3>. QED BY <3>2, <3>3, <3>4 DEF DivTyped
  <2>4. Sought'
    <3>1. \A set \in SUBSET Explorers' : ~Behind(set)'
      <4>. SUFFICES ASSUME NEW set \in SUBSET Explorers', NEW x \in set, x <= 0 PROVE FALSE
        BY <2>1 DEF Behind
      <4>1. x \in Nat \ {0}
        <5>1. Explorers' \in SUBSET Pool
          BY <2>3 DEF Explorers, Known, DivTyped
        <5>. QED BY <5>1, DiversityAssumption
      <4>. QED BY <4>1
    <3>2. DOMAIN selected' = {}
      BY <2>1 DEF Empty
    <3>. QED BY <2>2, <3>1, <3>2 DEF Sought
  <2>5. div'.phase = "search" /\ div'.mode = div.mode /\ div'.served # "diverse"
    BY <1>1, <1>3 DEF DivTyped
  <2>6. PoolBalanced'
    BY <1>1, <2>5, BalancedStays
  <2>. QED BY <2>2, <2>3, <2>4, <2>5, <2>6 DEF DivInv
<1>. QED BY <1>1, <1>2, <1>3 DEF RankPool

(* A step of the search or of the fill that leaves the request where it is. *)
LEMMA GoesOn ==
  ASSUME DivInv, div.phase \in {"search", "fill"}, UNCHANGED <<source, reserved, kept, metadata>>,
         div' = div \/ div' = [div EXCEPT !.phase = "fill"], search' \in [last : Nat, attempts : Nat, exhausted : BOOLEAN]
  PROVE  DivTyped' /\ PoolBalanced' /\ div'.served # "diverse"
<1>1. DivTyped /\ PoolBalanced /\ div.served # "diverse"
  BY DEF DivInv
<1>2. /\ div' \in [phase : {"keep", "rank", "search", "fill", "ended", "failed"},
                   mode : {"disabled", "shadow", "enabled"}, served : {"nothing", "baseline", "diverse"}]
      /\ div'.mode = div.mode /\ div'.served = div.served
  BY <1>1 DEF DivTyped
<1>. QED BY <1>1, <1>2, TypedStays, BalancedStays

LEMMA TriedKeeps == ASSUME DivInv, Try \/ Backtrack PROVE DivInv'
<1>1. div.phase = "search" /\ DivTyped /\ Booked /\ Sought /\ UNCHANGED <<source, reserved, kept, metadata>> /\ div' = div
  BY DEF DivInv, Try, Backtrack, Searching
<1>2. Booked' /\ Sought'
  BY <1>1, TryKeeps, BacktrackKeeps
<1>3. search' \in [last : Nat, attempts : Nat, exhausted : BOOLEAN]
  <2>1. CASE Try
    <3>1. Min(Ahead) \in Nat
      BY <1>1, <2>1, FirstAhead DEF Try
    <3>2. search' = [search EXCEPT !.last = Min(Ahead), !.attempts = @ + 1]
      BY <2>1 DEF Try
    <3>3. search \in [last : Nat, attempts : Nat, exhausted : BOOLEAN]
      BY <1>1 DEF DivTyped
    <3>. DEFINE m == Min(Ahead)
    <3>. HIDE DEF m
    <3>4. search' = [last |-> m, attempts |-> search.attempts + 1, exhausted |-> search.exhausted]
      BY <3>2, <3>3 DEF m
    <3>. QED BY <3>1, <3>3, <3>4 DEF m
  <2>2. CASE Backtrack
    <3>1. Last(selected) \in Known
      BY <2>2, <1>1, Shorter, SetOfSeq DEF Backtrack, Booked
    <3>2. Last(selected) \in Nat
      BY <3>1, <1>1, Finite
    <3>. QED BY <3>2, <2>2, <1>1 DEF Backtrack, DivTyped
  <2>. QED BY <2>1, <2>2
<1>4. DivTyped' /\ PoolBalanced' /\ div'.served # "diverse"
  BY <1>1, <1>3, GoesOn
<1>. QED BY <1>1, <1>2, <1>4 DEF DivInv

LEMMA ExhaustKeeps == ASSUME DivInv, Exhaust PROVE DivInv'
<1>1. div.phase = "search" /\ DivTyped /\ UNCHANGED <<source, reserved, kept, metadata>> /\ div' = [div EXCEPT !.phase = "fill"]
      /\ search' = [search EXCEPT !.exhausted = TRUE] /\ Empty'
  BY DEF DivInv, Exhaust, Searching, Empty
<1>2. Booked'
  BY <1>1, NothingChosenNext
<1>3. search' \in [last : Nat, attempts : Nat, exhausted : BOOLEAN] /\ search'.exhausted /\ div'.phase = "fill"
  BY <1>1 DEF DivTyped
<1>4. DivTyped' /\ PoolBalanced' /\ div'.served # "diverse"
  BY <1>1, <1>3, GoesOn
<1>. QED BY <1>2, <1>3, <1>4 DEF DivInv

LEMMA ReservedKeeps == ASSUME DivInv, Reserved PROVE DivInv'
<1>1. /\ div.phase = "search" /\ DivTyped /\ Booked /\ Sought /\ div' = [div EXCEPT !.phase = "fill"]
      /\ UNCHANGED <<source, reserved, kept, metadata, selected, counted, search>>
  BY DEF DivInv, Reserved
<1>2. Booked' /\ Chosen' = Chosen
  BY <1>1, BookedStays
<1>3. search' \in [last : Nat, attempts : Nat, exhausted : BOOLEAN] /\ div'.phase = "fill"
  BY <1>1 DEF DivTyped
<1>4. DivTyped' /\ PoolBalanced' /\ div'.served # "diverse"
  BY <1>1, <1>3, GoesOn
<1>5. Explorers' = Explorers /\ (\A set : Quota(set)' <=> Quota(set)) /\ Required' = Required /\ SemanticPool' = SemanticPool
  BY <1>1, QuotaKept
<1>6. ASSUME Short PROVE NoQuota
  <2>1. Required \in Nat /\ Len(selected) \in Nat /\ Cardinality(Chosen) = Len(selected) /\ Chosen \ SemanticPool = Chosen
    BY <1>1, Sized, SetOfSeq, InjectiveLength DEF Booked, Chosen, Sought, Explorers
  <2>2. Len(selected) < Required
    BY <1>6, <2>1 DEF Short, Explored
  <2>3. CASE selected = <<>> /\ Ahead = {}
    <3>. SUFFICES ASSUME NEW set \in SUBSET Explorers, Quota(set) PROVE FALSE
      BY DEF NoQuota
    <3>1. set \in SUBSET Nat
      BY <1>1, Finite
    <3>2. set # {}
      <4>1. Cardinality(set) = Required /\ Required # 0
        BY <2>1, <2>2 DEF Quota
      <4>. QED BY <4>1, FS_EmptySet
    <3>3. PICK x \in set : \A y \in set : x <= y
      BY <3>1, <3>2, Least
    <3>4. Chosen = {}
      BY <2>3 DEF Chosen, ToSet
    <3>5. {d \in set : d < x} = {d \in Chosen : d < x}
      <4>1. \A d \in set : ~(d < x)
        BY <3>1, <3>3
      <4>. QED BY <4>1, <3>4
    <3>6. x <= search.last
      <4>1. search.last \in Nat /\ x \in Explorers /\ x \in Nat
        BY <1>1, <3>1 DEF DivTyped
      <4>. QED BY <4>1, <2>3 DEF Ahead
    <3>7. Behind(set)
      BY <3>4, <3>5, <3>6 DEF Behind
    <3>. QED BY <3>7, <1>1 DEF Sought
  <2>4. CASE Cardinality(Explorers) < Required
    <3>. SUFFICES ASSUME NEW set \in SUBSET Explorers, Quota(set) PROVE FALSE
      BY DEF NoQuota
    <3>1. IsFiniteSet(Explorers) /\ Cardinality(Explorers) \in Nat
      BY <1>1, Finite
    <3>2. Cardinality(set) <= Cardinality(Explorers)
      BY <3>1, FS_Subset
    <3>. QED BY <3>1, <3>2, <2>1, <2>4 DEF Quota
  <2>5. ~(Len(selected) >= Required)
    BY <2>1, <2>2
  <2>. QED BY <2>3, <2>4, <2>5 DEF Reserved
<1>7. (Short => NoQuota)'
  <2>1. Short' = Short
    BY <1>2, <1>5 DEF Short, Explored
  <2>. QED BY <2>1, <1>5, <1>6 DEF NoQuota
<1>. QED BY <1>2, <1>3, <1>4, <1>7 DEF DivInv

LEMMA TakeKeeps == ASSUME DivInv, NEW c \in kept, Take(c) PROVE DivInv'
<1>1. /\ div.phase = "fill" /\ DivTyped /\ Booked /\ div' = div
      /\ UNCHANGED <<source, reserved, kept, metadata, search>> /\ c \in Known \ Chosen /\ Feasible(c)
      /\ selected' = Append(selected, c) /\ counted' = Counted(c, 1)
      /\ Short /\ ~search.exhausted => NoQuota
  BY DEF DivInv, Take, Eligible
<1>2. Booked' /\ Chosen' = Chosen \cup {c}
  BY <1>1, ChooseKeeps
<1>3. search' \in [last : Nat, attempts : Nat, exhausted : BOOLEAN] /\ search' = search
  BY <1>1 DEF DivTyped
<1>4. DivTyped' /\ PoolBalanced' /\ div'.served # "diverse"
  BY <1>1, <1>3, GoesOn
<1>5. Explorers' = Explorers /\ (\A set : Quota(set)' <=> Quota(set)) /\ Required' = Required /\ SemanticPool' = SemanticPool /\ Known' = Known
  BY <1>1, QuotaKept
<1>6. Short' => Short
  <2>1. Chosen \in SUBSET Known /\ Chosen' \in SUBSET Known
    BY <1>1, <1>2, SetOfSeq DEF Booked, Chosen
  <2>2. Chosen \ SemanticPool \in SUBSET (Chosen' \ SemanticPool) /\ IsFiniteSet(Chosen' \ SemanticPool)
    BY <1>1, <1>2, <2>1, Finite
  <2>3. /\ Cardinality(Chosen \ SemanticPool) <= Cardinality(Chosen' \ SemanticPool)
        /\ Cardinality(Chosen \ SemanticPool) \in Nat /\ Cardinality(Chosen' \ SemanticPool) \in Nat /\ Required \in Nat
    BY <2>2, FS_Subset, FS_CardinalityType, Sized
  <2>4. Explored = Cardinality(Chosen \ SemanticPool) /\ Explored' = Cardinality(Chosen' \ SemanticPool)
    BY <1>5 DEF Explored
  <2>. QED BY <2>3, <2>4, <1>5 DEF Short
<1>7. NoQuota' <=> NoQuota
  BY <1>5 DEF NoQuota
<1>. QED BY <1>1, <1>2, <1>3, <1>4, <1>6, <1>7 DEF DivInv

LEMMA ServePageKeeps == ASSUME DivInv, ServePage PROVE DivInv'
<1>1. /\ div.phase = "fill" /\ DivTyped /\ Booked /\ PoolBalanced /\ (Len(selected) >= PageLimit \/ Eligible = {})
      /\ UNCHANGED <<source, reserved, kept, metadata, selected, counted, search>>
  BY DEF DivInv, ServePage
<1>2. CASE ~(div.mode = "enabled" /\ Usable)
  <2>1. div' = Baseline
    BY <1>2 DEF ServePage
  <2>. QED BY <1>1, <2>1, EndedKeeps
<1>3. CASE div.mode = "enabled" /\ Usable
  <2>1. div' = [div EXCEPT !.phase = "ended", !.served = "diverse"]
    BY <1>3 DEF ServePage
  <2>2. /\ div' \in [phase : {"keep", "rank", "search", "fill", "ended", "failed"},
                     mode : {"disabled", "shadow", "enabled"}, served : {"nothing", "baseline", "diverse"}]
        /\ div'.phase = "ended" /\ div'.mode = div.mode
    BY <1>1, <2>1 DEF DivTyped
  <2>3. search' \in [last : Nat, attempts : Nat, exhausted : BOOLEAN]
    BY <1>1 DEF DivTyped
  <2>4. DivTyped'
    BY <1>1, <2>2, <2>3, TypedStays
  <2>5. Booked' /\ Chosen' = Chosen
    BY <1>1, BookedStays
  <2>6. PoolBalanced'
    BY <1>1, <2>2, BalancedStays
  <2>7. unknown = {} /\ Explored >= Required
    <3>1. IsFiniteSet(Chosen \ SemanticPool)
      <4>1. Chosen \in SUBSET Known
        BY <1>1, SetOfSeq DEF Booked, Chosen
      <4>. QED BY <4>1, <1>1, Finite
    <3>2. Explored \in Nat /\ Required \in Nat
      BY <3>1, FS_CardinalityType, Sized DEF Explored
    <3>. QED BY <1>3, <3>2 DEF Usable, Short
  <2>8. ASSUME Len(selected) < PageLimit, NEW c \in Known \ Chosen PROVE ~Fits(Chosen \cup {c})
    <3>1. Eligible = {}
      <4>1. Len(selected) \in Nat /\ PageLimit \in Nat
        BY <1>1, SetOfSeq, Sized DEF Booked
      <4>. QED BY <4>1, <2>8, <1>1
    <3>2. ~Feasible(c)
      BY <3>1 DEF Eligible
    <3>3. Chosen \cup {c} \in SUBSET Known
      BY <1>1, SetOfSeq DEF Booked, Chosen
    <3>. QED BY <3>2, <3>3, <1>1, FitsFeasible
  <2>9. PageHolds'
    <3>1. Known' = Known /\ SemanticPool' = SemanticPool /\ Required' = Required /\ labels' = labels /\ near' = near
      BY <1>1, QuotaKept DEF metadata
    <3>2. Explored' >= Required' /\ unknown' = {} /\ div'.mode = "enabled"
      BY <1>1, <1>3, <2>2, <2>5, <2>7, <3>1 DEF Explored, metadata
    <3>3. (Len(selected) < PageLimit => \A c \in Known \ Chosen : ~Fits(Chosen \cup {c}))'
      <4>. SUFFICES ASSUME Len(selected) < PageLimit, NEW c \in Known \ Chosen PROVE ~Fits(Chosen \cup {c})'
        BY <1>1, <2>5, <3>1
      <4>1. Fits(Chosen \cup {c})' => Fits(Chosen \cup {c})
        BY <2>5, <3>1 DEF Fits, Near
      <4>. QED BY <4>1, <2>8
    <3>. QED BY <3>2, <3>3 DEF PageHolds
  <2>. QED BY <2>2, <2>4, <2>5, <2>6, <2>9 DEF DivInv
<1>. QED BY <1>2, <1>3

LEMMA DivSteps == DivInv /\ [DiversityNext]_diversityVars => DivInv'
<1>. SUFFICES ASSUME DivInv, [DiversityNext]_diversityVars PROVE DivInv'
  OBVIOUS
<1>1. ASSUME UNCHANGED diversityVars PROVE DivInv'
  <2>1. /\ div' = div /\ source' = source /\ reserved' = reserved /\ kept' = kept /\ labels' = labels /\ near' = near
        /\ unknown' = unknown /\ selected' = selected /\ counted' = counted /\ search' = search
    BY <1>1 DEF diversityVars, metadata
  <2>1a. UNCHANGED <<kept, metadata, selected, counted>> /\ UNCHANGED <<source, kept, metadata>> /\ UNCHANGED <<kept, metadata, reserved>>
    BY <2>1 DEF metadata
  <2>2. DivTyped'
    BY <2>1, <2>1a, TypedStays DEF DivInv, DivTyped
  <2>3. Booked' /\ Chosen' = Chosen
    BY <2>1a, BookedStays DEF DivInv
  <2>4. PoolBalanced'
    BY <2>1 DEF DivInv, PoolBalanced, SemanticPool, Required
  <2>5. (div.phase \in {"keep", "rank"} => Blank)'
    BY <2>1 DEF DivInv, Blank, Empty
  <2>6. Explorers' = Explorers /\ Known' = Known /\ SemanticPool' = SemanticPool /\ \A set : Quota(set)' <=> Quota(set)
    BY <2>1a, QuotaKept
  <2>7. (div.phase = "search" => Sought)'
    BY <2>1, <2>3, <2>6 DEF DivInv, Sought, Behind
  <2>8. (div.phase = "fill" /\ Short /\ ~search.exhausted => NoQuota)'
    <3>1. Short' = Short
      BY <2>3, <2>6 DEF Short, Explored, Required
    <3>2. NoQuota => NoQuota'
      BY <2>6 DEF NoQuota
    <3>. QED BY <2>1, <3>1, <3>2 DEF DivInv
  <2>9. (div.served = "diverse" => div.phase = "ended" /\ PageHolds)'
    <3>1. \A set : Fits(set)' <=> Fits(set)
      BY <2>1 DEF Fits, Near
    <3>2. PageHolds => PageHolds'
      BY <2>1, <2>3, <2>6, <3>1 DEF PageHolds, Explored, Required
    <3>. QED BY <2>1, <3>2 DEF DivInv
  <2>. QED BY <2>2, <2>3, <2>4, <2>5, <2>7, <2>8, <2>9 DEF DivInv
<1>2. ASSUME Expire PROVE DivInv'
  BY <1>2, EndedKeeps DEF Expire
<1>. QED BY <1>1, <1>2, KeepKeeps, RankPoolKeeps, TriedKeeps, ExhaustKeeps, ReservedKeeps, TakeKeeps, ServePageKeeps DEF DiversityNext

(* For any candidates and bounds: the pool kept for the ranker has its     *)
(* semantic candidate and what the quota needs, and the bounded search     *)
(* that reserves the quota is sound and, within its budget, complete.      *)
THEOREM DiversityTheorem == DiversitySpec => []DiversityHonest
<1>1. DiversitySpec => [](PoolBalanced /\ QuotaHonest)
  BY DivStarts, DivSteps, DivFollows, PTL DEF DiversitySpec
<1>. QED BY <1>1, PTL DEF DiversityHonest

---------------------------------------------------------------------------
(* The anchors of retries: what still stands of a promise is in the FIFO,  *)
(* with no more newer anchors behind it than the promise has counted.      *)

Anchored == [generation : Generations, expires : Nat, hour : Nat]
Pledge == [hour : Nat, expires : Nat, newer : Nat]
Distinct(fifo) == \A i, j \in DOMAIN fifo : fifo[i].generation = fifo[j].generation => i = j

\* The anchor of a pledge is in the FIFO, with no more newer ones behind it.
Holds(fifo, g, pledge) ==
  \E k \in DOMAIN fifo :
    /\ fifo[k].generation = g /\ fifo[k].expires = pledge.expires /\ fifo[k].hour = pledge.hour
    /\ Len(fifo) - k <= pledge.newer

Standing(g) == pledges[g].expires > 0 /\ pledges[g].newer < AnchorCapacity

AnchorInv ==
  /\ clock \in Nat /\ anchors \in Seq(Anchored) /\ Distinct(anchors)
  /\ reading \in Seq([generation : Generations, now : Nat])
  /\ pledges \in [Generations -> Pledge]
  /\ \A g \in Generations : Standing(g) => Holds(anchors, g, pledges[g])
  /\ answer.promised \subseteq {answer.hour}

(* The FIFO from one place on. *)
LEMMA SuffixOf ==
  ASSUME NEW f \in Seq(Anchored), NEW m \in Nat \ {0}, m <= Len(f) + 1, Distinct(f)
  PROVE  LET s == SubSeq(f, m, Len(f))
         IN  /\ s \in Seq(Anchored) /\ Distinct(s) /\ \A k \in DOMAIN s : m + k - 1 \in DOMAIN f /\ s[k] = f[m + k - 1]
             /\ DOMAIN s = 1 .. Len(f) - m + 1 /\ Len(s) = Len(f) - m + 1
<1>. DEFINE s == SubSeq(f, m, Len(f))
<1>1. PICK n \in Nat : n = Len(f) /\ DOMAIN f = 1 .. n
  BY LenProperties
<1>2. s \in Seq(Anchored) /\ Len(s) = n - m + 1 /\ DOMAIN s = 1 .. (n - m + 1) /\ \A k \in 1 .. (n - m + 1) : s[k] = f[m + k - 1]
  <2>1. \A i \in m .. n : f[i] \in Anchored
    BY <1>1, ElementOfSeq
  <2>2. n - m + 1 \in Nat /\ (IF m <= n THEN n - m + 1 ELSE 0) = n - m + 1
    BY <1>1
  <2>3. /\ SubSeq(f, m, n) \in Seq(Anchored) /\ Len(SubSeq(f, m, n)) = (IF m <= n THEN n - m + 1 ELSE 0)
        /\ \A i \in 1 .. n - m + 1 : SubSeq(f, m, n)[i] = f[m + i - 1]
    BY <2>1, <1>1, SubSeqProperties
  <2>4. DOMAIN s = 1 .. Len(s)
    BY <2>3, <1>1, LenProperties
  <2>. QED BY <1>1, <2>2, <2>3, <2>4
<1>. HIDE DEF s
<1>3. \A k \in DOMAIN s : m + k - 1 \in DOMAIN f /\ s[k] = f[m + k - 1]
  BY <1>1, <1>2
<1>4. Distinct(s)
  <2>. SUFFICES ASSUME NEW i \in DOMAIN s, NEW j \in DOMAIN s, s[i].generation = s[j].generation PROVE i = j
    BY DEF Distinct
  <2>1. m + i - 1 = m + j - 1
    BY <1>3 DEF Distinct
  <2>2. i \in Int /\ j \in Int
    BY <1>2
  <2>. QED BY <2>1, <2>2
<1>. QED BY <1>1, <1>2, <1>3, <1>4 DEF s

LEMMA SuffixHolds ==
  ASSUME NEW f \in Seq(Anchored), NEW m \in Nat \ {0}, m <= Len(f) + 1, Distinct(f),
         NEW g, NEW pledge \in Pledge, NEW k \in DOMAIN f, k >= m,
         f[k].generation = g, f[k].expires = pledge.expires, f[k].hour = pledge.hour, Len(f) - k <= pledge.newer
  PROVE  Holds(SubSeq(f, m, Len(f)), g, pledge)
<1>. DEFINE s == SubSeq(f, m, Len(f))
            j == k - m + 1
<1>0. PICK n \in Nat : n = Len(f) /\ DOMAIN f = 1 .. n
  BY LenProperties
<1>1. DOMAIN s = 1 .. n - m + 1 /\ Len(s) = n - m + 1 /\ \A i \in DOMAIN s : s[i] = f[m + i - 1]
  BY <1>0, SuffixOf
<1>. HIDE DEF s
<1>2. j \in DOMAIN s /\ m + j - 1 = k /\ Len(s) - j = Len(f) - k
  BY <1>0, <1>1
<1>3. s[j] = f[k]
  BY <1>1, <1>2
<1>4. Holds(s, g, pledge)
  BY <1>2, <1>3 DEF Holds
<1>. QED BY <1>4 DEF s

LEMMA LiveKeeps ==
  ASSUME AnchorInv, NEW now \in Nat
  PROVE  LET alive == LiveFrom(now)
         IN  /\ alive \in Seq(Anchored) /\ Distinct(alive)
             /\ \A g \in Generations : Promised(g, now) => Holds(alive, g, pledges[g])
<1>. DEFINE live == {k \in DOMAIN anchors : anchors[k].expires > now}
<1>1. anchors \in Seq(Anchored) /\ Distinct(anchors) /\ DOMAIN anchors = 1 .. Len(anchors) /\ Len(anchors) \in Nat
  BY SetOfSeq DEF AnchorInv
<1>2. ASSUME NEW g \in Generations, Promised(g, now)
      PROVE  \E k \in live : /\ anchors[k].generation = g /\ anchors[k].expires = pledges[g].expires /\ anchors[k].hour = pledges[g].hour
                             /\ Len(anchors) - k <= pledges[g].newer
  <2>1. pledges[g] \in Pledge
    BY DEF AnchorInv
  <2>2. Standing(g)
    BY <1>2, <2>1 DEF Promised, Standing, Pledge
  <2>. QED BY <1>2, <2>2 DEF AnchorInv, Holds, Promised
<1>3. CASE live = {}
  <2>1. LiveFrom(now) = <<>>
    BY <1>3 DEF LiveFrom
  <2>. QED BY <2>1, <1>2, <1>3 DEF Distinct
<1>4. CASE live # {}
  <2>1. live \in SUBSET Nat
    BY <1>1
  <2>2. PICK m \in live : \A k \in live : m <= k
    BY <1>4, <2>1, Least
  <2>3. Min(live) \in live /\ \A k \in live : Min(live) <= k
    BY <2>2 DEF Min
  <2>. DEFINE first == Min(live)
  <2>4. LiveFrom(now) = SubSeq(anchors, first, Len(anchors))
    BY <1>4 DEF LiveFrom
  <2>. HIDE DEF first
  <2>5. first \in live /\ \A k \in live : first <= k
    BY <2>3 DEF first
  <2>6. first \in Nat \ {0} /\ first <= Len(anchors) + 1
    BY <1>1, <2>5
  <2>7. LiveFrom(now) \in Seq(Anchored) /\ Distinct(LiveFrom(now))
    BY <1>1, <2>4, <2>6, SuffixOf
  <2>8. ASSUME NEW g \in Generations, Promised(g, now) PROVE Holds(LiveFrom(now), g, pledges[g])
    <3>1. PICK k \in live : /\ anchors[k].generation = g /\ anchors[k].expires = pledges[g].expires /\ anchors[k].hour = pledges[g].hour
                            /\ Len(anchors) - k <= pledges[g].newer
      BY <2>8, <1>2
    <3>2. k \in DOMAIN anchors /\ k >= first
      BY <2>1, <2>5, <2>6
    <3>3. pledges[g] \in Pledge
      BY DEF AnchorInv
    <3>. QED BY <3>1, <3>2, <3>3, <1>1, <2>4, <2>6, SuffixHolds
  <2>. QED BY <2>7, <2>8
<1>. QED BY <1>3, <1>4

LEMMA PoppedKeeps ==
  ASSUME NEW f \in Seq(Anchored), Distinct(f), NEW g
  PROVE  LET s == Popped(f, g)
         IN  /\ s \in Seq(Anchored) /\ Distinct(s) /\ \A k \in DOMAIN s : s[k].generation # g
             /\ \A h : \A pledge \in Pledge : h # g /\ Holds(f, h, pledge) => Holds(s, h, pledge)
<1>. DEFINE same == {k \in DOMAIN f : f[k].generation = g}
            s == Popped(f, g)
<1>1. PICK n \in Nat : n = Len(f) /\ DOMAIN f = 1 .. n
  BY LenProperties
<1>2. CASE same = {}
  <2>1. s = f
    BY <1>2 DEF Popped
  <2>. QED BY <2>1, <1>2
<1>3. CASE same # {}
  <2>1. same \in SUBSET Nat
    BY <1>1
  <2>2. PICK first \in same : \A k \in same : first <= k
    BY <1>3, <2>1, Least
  <2>3. Min(same) \in same
    BY <2>2 DEF Min
  <2>4. PICK m \in 1 .. n : m = Min(same) /\ f[m].generation = g
    BY <2>3, <1>1
  <2>. DEFINE a == SubSeq(f, 1, m - 1)
              b == SubSeq(f, m + 1, n)
  <2>5. s = a \o b
    BY <1>1, <1>3, <2>4 DEF Popped, RemoveAt
  <2>6. \A k \in 1 .. n : f[k] \in Anchored
    BY <1>1, ElementOfSeq
  <2>7. a \in Seq(Anchored) /\ Len(a) = m - 1 /\ \A k \in 1 .. m - 1 : a[k] = f[k]
    <3>1. \A k \in 1 .. m - 1 : f[k] \in Anchored
      BY <2>6
    <3>2. /\ a \in Seq(Anchored) /\ Len(a) = (IF 1 <= m - 1 THEN (m - 1) - 1 + 1 ELSE 0)
          /\ \A k \in 1 .. (m - 1) - 1 + 1 : a[k] = f[1 + k - 1]
      BY <3>1, SubSeqProperties
    <3>. QED BY <3>2
  <2>8. b \in Seq(Anchored) /\ Len(b) = n - m /\ \A k \in 1 .. n - m : b[k] = f[m + k]
    <3>1. \A k \in m + 1 .. n : f[k] \in Anchored
      BY <2>6
    <3>2. /\ b \in Seq(Anchored) /\ Len(b) = (IF m + 1 <= n THEN n - (m + 1) + 1 ELSE 0)
          /\ \A k \in 1 .. n - (m + 1) + 1 : b[k] = f[m + 1 + k - 1]
      BY <3>1, SubSeqProperties
    <3>. QED BY <3>2
  <2>. HIDE DEF a, b
  <2>9. s \in Seq(Anchored) /\ Len(s) = n - 1 /\ \A k \in 1 .. n - 1 : s[k] = IF k < m THEN f[k] ELSE f[k + 1]
    <3>0. /\ a \o b \in Seq(Anchored) /\ Len(a \o b) = Len(a) + Len(b)
          /\ \A k \in 1 .. Len(a) + Len(b) : (a \o b)[k] = IF k <= Len(a) THEN a[k] ELSE b[k - Len(a)]
      BY <2>7, <2>8, ConcatProperties
    <3>1. /\ s \in Seq(Anchored) /\ Len(s) = Len(a) + Len(b)
          /\ \A k \in 1 .. Len(a) + Len(b) : s[k] = IF k <= Len(a) THEN a[k] ELSE b[k - Len(a)]
      BY <2>5, <3>0
    <3>2. ASSUME NEW k \in 1 .. n - 1 PROVE s[k] = IF k < m THEN f[k] ELSE f[k + 1]
      <4>1. s[k] = IF k <= m - 1 THEN a[k] ELSE b[k - (m - 1)]
        BY <3>1, <2>7, <2>8
      <4>2. CASE k < m
        BY <4>1, <4>2, <2>7
      <4>3. CASE ~(k < m)
        <5>1. k - (m - 1) \in 1 .. n - m /\ m + (k - (m - 1)) = k + 1
          BY <4>3
        <5>2. b[k - (m - 1)] = f[m + (k - (m - 1))]
          BY <5>1, <2>8
        <5>. QED BY <4>1, <4>3, <5>1, <5>2
      <4>. QED BY <4>2, <4>3
    <3>. QED BY <3>1, <3>2, <2>7, <2>8
  <2>. HIDE DEF s, same
  <2>10. DOMAIN s = 1 .. n - 1
    BY <2>9, LenProperties
  <2>11. \A k \in 1 .. n : k # m => f[k].generation # g
    BY <1>1, <2>4 DEF Distinct
  <2>12. \A k \in 1 .. n - 1 : \E i \in 1 .. n : i # m /\ s[k] = f[i] /\ i = IF k < m THEN k ELSE k + 1
    <3>. SUFFICES ASSUME NEW k \in 1 .. n - 1 PROVE \E i \in 1 .. n : i # m /\ s[k] = f[i] /\ i = IF k < m THEN k ELSE k + 1
      OBVIOUS
    <3>1. CASE k < m
      <4>1. k \in 1 .. n /\ k # m /\ s[k] = f[k]
        BY <3>1, <2>9
      <4>. QED BY <4>1, <3>1
    <3>2. CASE ~(k < m)
      <4>1. k + 1 \in 1 .. n /\ k + 1 # m /\ s[k] = f[k + 1]
        BY <3>2, <2>9
      <4>. QED BY <4>1, <3>2
    <3>. QED BY <3>1, <3>2
  <2>13. \A k \in DOMAIN s : s[k].generation # g
    BY <2>10, <2>11, <2>12
  <2>14. Distinct(s)
    <3>. SUFFICES ASSUME NEW k \in 1 .. n - 1, NEW j \in 1 .. n - 1, s[k].generation = s[j].generation PROVE k = j
      BY <2>10 DEF Distinct
    <3>1. PICK x \in 1 .. n : s[k] = f[x] /\ x = IF k < m THEN k ELSE k + 1
      BY <2>12
    <3>2. PICK y \in 1 .. n : s[j] = f[y] /\ y = IF j < m THEN j ELSE j + 1
      BY <2>12
    <3>3. x = y
      BY <3>1, <3>2, <1>1 DEF Distinct
    <3>. QED BY <3>1, <3>2, <3>3
  <2>15. ASSUME NEW h, NEW pledge \in Pledge, h # g, Holds(f, h, pledge) PROVE Holds(s, h, pledge)
    <3>1. PICK k \in 1 .. n : /\ f[k].generation = h /\ f[k].expires = pledge.expires /\ f[k].hour = pledge.hour
                              /\ n - k <= pledge.newer
      BY <2>15, <1>1 DEF Holds
    <3>2. k # m
      BY <3>1, <2>4, <2>15
    <3>. DEFINE j == IF k < m THEN k ELSE k - 1
    <3>3. j \in 1 .. n - 1 /\ s[j] = f[k] /\ j >= k - 1
      <4>1. CASE k < m
        <5>1. k \in 1 .. n - 1 /\ s[k] = f[k]
          BY <4>1, <2>9
        <5>. QED BY <4>1, <5>1
      <4>2. CASE ~(k < m)
        <5>1. k - 1 \in 1 .. n - 1 /\ ~(k - 1 < m) /\ (k - 1) + 1 = k
          BY <4>2, <3>2
        <5>2. s[k - 1] = f[(k - 1) + 1]
          BY <5>1, <2>9
        <5>. QED BY <4>2, <5>1, <5>2
      <4>. QED BY <4>1, <4>2
    <3>. HIDE DEF j
    <3>4. pledge.newer \in Nat
      BY DEF Pledge
    <3>5. Len(s) - j <= pledge.newer
      BY <3>1, <3>3, <3>4, <2>9
    <3>. QED BY <3>1, <3>3, <3>5, <2>10 DEF Holds
  <2>. QED BY <2>9, <2>13, <2>14, <2>15 DEF s
<1>. QED BY <1>2, <1>3

LEMMA Bounded == MaxSameLanguage \in Nat \ {0} /\ AnchorCapacity \in Nat \ {0} /\ AnchorTicks \in Nat \ {0}
BY FeedAssumption

(* The newest anchor comes last, and the FIFO keeps as many as it holds. *)
LEMMA EvictedKeeps ==
  ASSUME NEW f \in Seq(Anchored), Distinct(f), Len(f) > 0
  PROVE  /\ Evicted(f) \in Seq(Anchored) /\ Distinct(Evicted(f))
         /\ \A h : \A pledge \in Pledge : pledge.newer < AnchorCapacity /\ Holds(f, h, pledge) => Holds(Evicted(f), h, pledge)
<1>. DEFINE m == Max({1, Len(f) - AnchorCapacity + 1})
<1>0. PICK n \in Nat : n = Len(f) /\ DOMAIN f = 1 .. n
  BY LenProperties
<1>1. m = IF 1 <= n - AnchorCapacity + 1 THEN n - AnchorCapacity + 1 ELSE 1
  BY <1>0, Bounded, TwoMax
<1>2. Evicted(f) = SubSeq(f, m, Len(f))
  BY DEF Evicted
<1>. HIDE DEF m
<1>3. m \in Nat \ {0} /\ m <= Len(f) + 1
  BY <1>0, <1>1, Bounded
<1>4. Evicted(f) \in Seq(Anchored) /\ Distinct(Evicted(f))
  BY <1>2, <1>3, SuffixOf
<1>5. ASSUME NEW h, NEW pledge \in Pledge, pledge.newer < AnchorCapacity, Holds(f, h, pledge) PROVE Holds(Evicted(f), h, pledge)
  <2>1. PICK k \in 1 .. n : /\ f[k].generation = h /\ f[k].expires = pledge.expires /\ f[k].hour = pledge.hour
                            /\ Len(f) - k <= pledge.newer
    BY <1>0, <1>5 DEF Holds
  <2>2. pledge.newer \in Nat
    BY DEF Pledge
  <2>3. k >= m
    BY <2>1, <2>2, <1>0, <1>1, <1>5, Bounded
  <2>. QED BY <2>1, <2>3, <1>0, <1>2, <1>3, SuffixHolds
<1>. QED BY <1>4, <1>5

LEMMA AppendedKeeps ==
  ASSUME NEW f \in Seq(Anchored), Distinct(f), NEW e \in Anchored, \A k \in DOMAIN f : f[k].generation # e.generation
  PROVE  LET s == Append(f, e)
         IN  /\ s \in Seq(Anchored) /\ Distinct(s) /\ Len(s) > 0
             /\ Holds(s, e.generation, [hour |-> e.hour, expires |-> e.expires, newer |-> 0])
             /\ \A h : \A pledge \in Pledge : Holds(f, h, pledge) =>
                  Holds(s, h, [hour |-> pledge.hour, expires |-> pledge.expires, newer |-> pledge.newer + 1])
<1>. DEFINE s == Append(f, e)
<1>0. PICK n \in Nat : n = Len(f) /\ DOMAIN f = 1 .. n
  BY LenProperties
<1>1. s \in Seq(Anchored) /\ Len(s) = n + 1 /\ DOMAIN s = 1 .. (n + 1) /\ s[n + 1] = e /\ \A k \in 1 .. n : s[k] = f[k]
  BY <1>0
<1>. HIDE DEF s
<1>2. Distinct(s)
  <2>. SUFFICES ASSUME NEW i \in 1 .. (n + 1), NEW j \in 1 .. (n + 1), s[i].generation = s[j].generation PROVE i = j
    BY <1>1 DEF Distinct
  <2>1. \A k \in 1 .. (n + 1) : k \in 1 .. n \/ k = n + 1
    OBVIOUS
  <2>2. CASE i \in 1 .. n /\ j \in 1 .. n
    BY <2>2, <1>0, <1>1 DEF Distinct
  <2>3. CASE i \in 1 .. n /\ j = n + 1
    BY <2>3, <1>0, <1>1
  <2>4. CASE i = n + 1 /\ j \in 1 .. n
    BY <2>4, <1>0, <1>1
  <2>. QED BY <2>1, <2>2, <2>3, <2>4
<1>3. Holds(s, e.generation, [hour |-> e.hour, expires |-> e.expires, newer |-> 0])
  <2>1. n + 1 \in DOMAIN s /\ Len(s) - (n + 1) <= 0
    BY <1>1
  <2>. QED BY <2>1, <1>1 DEF Holds
<1>4. ASSUME NEW h, NEW pledge \in Pledge, Holds(f, h, pledge)
      PROVE  Holds(s, h, [hour |-> pledge.hour, expires |-> pledge.expires, newer |-> pledge.newer + 1])
  <2>1. PICK k \in 1 .. n : /\ f[k].generation = h /\ f[k].expires = pledge.expires /\ f[k].hour = pledge.hour
                            /\ n - k <= pledge.newer
    BY <1>0, <1>4 DEF Holds
  <2>2. pledge.newer \in Nat
    BY DEF Pledge
  <2>3. k \in DOMAIN s /\ s[k] = f[k] /\ Len(s) - k <= pledge.newer + 1
    BY <2>1, <2>2, <1>1
  <2>. QED BY <2>1, <2>3 DEF Holds
<1>. QED BY <1>1, <1>2, <1>3, <1>4 DEF s

LEMMA AnchorKeeps ==
  ASSUME AnchorInv, NEW k \in 1 .. 2, Anchor(k)
  PROVE  AnchorInv'
<1>. DEFINE g == reading[k].generation
            now == reading[k].now
            alive == LiveFrom(now)
            hit == {e \in ToSet(alive) : e.generation = g /\ e.expires > now}
            fresh == [generation |-> g, expires |-> now + AnchorTicks, hour |-> Hour(now)]
            fifo == Append(Popped(alive, g), fresh)
            new == hit = {}
<1>1. k \in DOMAIN reading /\ reading[k] \in [generation : Generations, now : Nat]
  BY ElementOfSeq, LenProperties DEF Anchor, AnchorInv
<1>2. g \in Generations /\ now \in Nat
  BY <1>1
<1>3. /\ anchors' = IF new THEN Evicted(fifo) ELSE alive
      /\ answer' = [hour |-> IF new THEN fresh.hour ELSE (CHOOSE e \in hit : TRUE).hour,
                    promised |-> IF Promised(g, now) THEN {pledges[g].hour} ELSE {}]
      /\ pledges' = [h \in Generations |->
                       IF h = g /\ new THEN [hour |-> fresh.hour, expires |-> fresh.expires, newer |-> 0]
                       ELSE Later(h, now, new)]
      /\ reading' = RemoveAt(reading, k) /\ clock' = clock
  BY DEF Anchor
<1>4. alive \in Seq(Anchored) /\ Distinct(alive) /\ \A h \in Generations : Promised(h, now) => Holds(alive, h, pledges[h])
  BY <1>2, LiveKeeps
<1>5. fresh \in Anchored /\ fresh.expires > 0
  <2>1. Hour(now) \in Nat
    BY <1>2 DEF Hour
  <2>2. now + AnchorTicks \in Nat /\ now + AnchorTicks > 0
    BY <1>2, Bounded
  <2>. QED BY <1>2, <2>1, <2>2 DEF Anchored
<1>. HIDE DEF g, now, alive, fresh
<1>6. reading' \in Seq([generation : Generations, now : Nat])
  <2>. DEFINE R == [generation : Generations, now : Nat]
  <2>1. reading \in Seq(R) /\ k \in DOMAIN reading
    BY <1>1 DEF AnchorInv
  <2>. HIDE DEF R
  <2>2. PICK n \in Nat : n = Len(reading) /\ k \in 1 .. n /\ \A i \in 1 .. n : reading[i] \in R
    BY <2>1, LenProperties, ElementOfSeq
  <2>3. SubSeq(reading, 1, k - 1) \in Seq(R) /\ SubSeq(reading, k + 1, n) \in Seq(R)
    <3>1. (\A i \in 1 .. k - 1 : reading[i] \in R) /\ (\A i \in k + 1 .. n : reading[i] \in R)
      BY <2>2
    <3>. QED BY <3>1, <2>2, SubSeqProperties
  <2>4. reading' = SubSeq(reading, 1, k - 1) \o SubSeq(reading, k + 1, n)
    BY <1>3, <2>2 DEF RemoveAt
  <2>5. reading' \in Seq(R)
    BY <2>3, <2>4, ConcatProperties
  <2>. QED BY <2>5 DEF R
<1>7. \A h \in Generations : pledges[h] \in Pledge /\ pledges[h].hour \in Nat /\ pledges[h].expires \in Nat /\ pledges[h].newer \in Nat
  BY DEF AnchorInv, Pledge
<1>8. ASSUME NEW h \in Generations
      PROVE  /\ Later(h, now, new) \in Pledge
             /\ ~Promised(h, now) => Later(h, now, new).expires = 0
             /\ Promised(h, now) /\ ~new => Later(h, now, new) = pledges[h]
             /\ Promised(h, now) /\ new =>
                  Later(h, now, new) = [hour |-> pledges[h].hour, expires |-> pledges[h].expires, newer |-> pledges[h].newer + 1]
  <2>1. pledges[h] = [hour |-> pledges[h].hour, expires |-> pledges[h].expires, newer |-> pledges[h].newer]
    BY <1>7 DEF Pledge
  <2>2. CASE ~Promised(h, now)
    <3>1. Later(h, now, new) = [pledges[h] EXCEPT !.expires = 0]
      BY <2>2 DEF Later
    <3>2. Later(h, now, new) = [hour |-> pledges[h].hour, expires |-> 0, newer |-> pledges[h].newer]
      BY <3>1, <2>1
    <3>. QED BY <3>2, <2>2, <1>7 DEF Pledge
  <2>3. CASE Promised(h, now) /\ ~new
    <3>1. Later(h, now, new) = pledges[h]
      BY <2>3 DEF Later
    <3>. QED BY <3>1, <2>3, <1>7
  <2>4. CASE Promised(h, now) /\ new
    <3>1. Later(h, now, new) = [pledges[h] EXCEPT !.newer = pledges[h].newer + 1]
      BY <2>4 DEF Later
    <3>2. Later(h, now, new) = [hour |-> pledges[h].hour, expires |-> pledges[h].expires, newer |-> pledges[h].newer + 1]
      BY <3>1, <2>1
    <3>. QED BY <3>2, <2>4, <1>7 DEF Pledge
  <2>. QED BY <2>2, <2>3, <2>4
<1>9. Promised(g, now) => ~new
  <2>. SUFFICES ASSUME Promised(g, now) PROVE hit # {}
    OBVIOUS
  <2>1. PICK i \in DOMAIN alive : alive[i].generation = g /\ alive[i].expires = pledges[g].expires
    BY <1>2, <1>4 DEF Holds
  <2>2. alive[i] \in ToSet(alive) /\ alive[i].expires > now
    BY <2>1 DEF Promised, ToSet
  <2>. QED BY <2>1, <2>2
<1>10. pledges' \in [Generations -> Pledge]
  <2>1. [hour |-> fresh.hour, expires |-> fresh.expires, newer |-> 0] \in Pledge
    BY <1>5 DEF Anchored, Pledge
  <2>. HIDE DEF new
  <2>. QED BY <1>3, <1>8, <2>1
<1>11. CASE ~new
  <2>1. anchors' = alive /\ \A h \in Generations : pledges'[h] = Later(h, now, new)
    BY <1>3, <1>11
  <2>2. answer'.promised \subseteq {answer'.hour}
    <3>. SUFFICES ASSUME Promised(g, now) PROVE pledges[g].hour = (CHOOSE e \in hit : TRUE).hour
      BY <1>3, <1>11
    <3>1. PICK i \in DOMAIN alive : alive[i].generation = g /\ alive[i].hour = pledges[g].hour
      BY <1>2, <1>4 DEF Holds
    <3>2. (CHOOSE e \in hit : TRUE) \in hit
      BY <1>11
    <3>3. PICK j \in DOMAIN alive : alive[j] = (CHOOSE e \in hit : TRUE) /\ alive[j].generation = g
      BY <3>2 DEF ToSet
    <3>4. i = j
      BY <3>1, <3>3, <1>4 DEF Distinct
    <3>. QED BY <3>1, <3>3, <3>4
  <2>3. ASSUME NEW h \in Generations, Standing(h)' PROVE Holds(anchors', h, pledges'[h])
    <3>1. Promised(h, now)
      <4>1. ~(Later(h, now, new).expires = 0)
        BY <2>1, <2>3 DEF Standing
      <4>. QED BY <4>1, <1>8
    <3>2. pledges'[h] = pledges[h]
      BY <3>1, <1>8, <1>11, <2>1
    <3>. QED BY <3>1, <3>2, <2>1, <1>4
  <2>4. (\A h \in Generations : Standing(h) => Holds(anchors, h, pledges[h]))'
    BY <2>3 DEF Holds, Standing
  <2>. QED BY <1>3, <1>4, <1>6, <1>10, <2>1, <2>2, <2>4 DEF AnchorInv, Distinct
<1>12. CASE new
  <2>. DEFINE others == Popped(alive, g)
  <2>1. /\ others \in Seq(Anchored) /\ Distinct(others) /\ \A i \in DOMAIN others : others[i].generation # g
        /\ \A h : \A pledge \in Pledge : h # g /\ Holds(alive, h, pledge) => Holds(others, h, pledge)
    BY <1>4, PoppedKeeps
  <2>. HIDE DEF others
  <2>2. fresh.generation = g /\ fifo = Append(others, fresh)
    BY DEF fresh, others
  <2>. DEFINE first == [hour |-> fresh.hour, expires |-> fresh.expires, newer |-> 0]
  <2>3. fifo \in Seq(Anchored) /\ Distinct(fifo) /\ Len(fifo) > 0 /\ Holds(fifo, g, first)
    BY <1>5, <2>1, <2>2, AppendedKeeps
  <2>4. \A h : \A pledge \in Pledge : Holds(others, h, pledge) =>
          Holds(fifo, h, [hour |-> pledge.hour, expires |-> pledge.expires, newer |-> pledge.newer + 1])
    BY <1>5, <2>1, <2>2, AppendedKeeps
  <2>. HIDE DEF fifo
  <2>5. Evicted(fifo) \in Seq(Anchored) /\ Distinct(Evicted(fifo))
    BY <2>3, EvictedKeeps
  <2>6. anchors' = Evicted(fifo) /\ answer'.promised = {}
    BY <1>3, <1>9, <1>12
  <2>7. ASSUME NEW h \in Generations, Standing(h)' PROVE Holds(Evicted(fifo), h, pledges'[h])
    <3>1. CASE h = g
      <4>1. pledges'[h] = first /\ first \in Pledge /\ first.newer < AnchorCapacity
        BY <1>3, <1>5, <1>12, <3>1, Bounded DEF Pledge, Anchored
      <4>. QED BY <4>1, <3>1, <2>3, EvictedKeeps
    <3>2. CASE h # g
      <4>1. pledges'[h] = Later(h, now, new)
        BY <1>3, <3>2
      <4>2. Promised(h, now)
        <5>1. ~(Later(h, now, new).expires = 0)
          BY <4>1, <2>7 DEF Standing
        <5>. QED BY <5>1, <1>8
      <4>3. pledges'[h] = [hour |-> pledges[h].hour, expires |-> pledges[h].expires, newer |-> pledges[h].newer + 1]
        BY <1>8, <1>12, <4>1, <4>2
      <4>4. Holds(others, h, pledges[h])
        BY <1>4, <1>7, <2>1, <3>2, <4>2
      <4>5. Holds(fifo, h, pledges'[h])
        BY <1>7, <2>4, <4>3, <4>4
      <4>6. pledges'[h] \in Pledge /\ pledges'[h].newer < AnchorCapacity
        BY <1>10, <2>7 DEF Standing
      <4>. QED BY <4>5, <4>6, <2>3, EvictedKeeps
    <3>. QED BY <3>1, <3>2
  <2>8. (\A h \in Generations : Standing(h) => Holds(anchors, h, pledges[h]))'
    BY <2>6, <2>7 DEF Holds, Standing
  <2>. QED BY <1>3, <1>6, <1>10, <2>5, <2>6, <2>8 DEF AnchorInv, Distinct
<1>. QED BY <1>11, <1>12

LEMMA AnchorStays == ASSUME AnchorInv, UNCHANGED <<anchors, pledges, answer>>, clock' \in Nat,
                            reading' \in Seq([generation : Generations, now : Nat])
                     PROVE  AnchorInv'
BY DEF AnchorInv, Distinct, Standing, Holds

LEMMA AnchorSteps == AnchorInv /\ [ShapeNext \/ AnchorNext]_feedVars => AnchorInv'
<1>. SUFFICES ASSUME AnchorInv, [ShapeNext \/ AnchorNext]_feedVars PROVE AnchorInv'
  OBVIOUS
<1>1. ASSUME UNCHANGED anchorVars PROVE AnchorInv'
  BY <1>1, AnchorStays DEF anchorVars, AnchorInv
<1>2. ASSUME ShapeNext \/ UNCHANGED feedVars PROVE AnchorInv'
  BY <1>1, <1>2 DEF ShapeNext, Split, Visit, FinishPage, feedVars
<1>3. ASSUME Tick PROVE AnchorInv'
  BY <1>3, AnchorStays DEF Tick, AnchorInv
<1>4. ASSUME NEW g \in Generations, AskPage(g) PROVE AnchorInv'
  BY <1>4, AnchorStays DEF AskPage, AnchorInv
<1>. QED BY <1>2, <1>3, <1>4, AnchorKeeps DEF AnchorNext

LEMMA AnchorStarts == FeedInit => AnchorInv
<1>. SUFFICES ASSUME FeedInit PROVE AnchorInv
  OBVIOUS
<1>1. \A g \in Generations : ~Standing(g)
  BY DEF FeedInit, Standing
<1>2. pledges \in [Generations -> Pledge]
  BY DEF FeedInit, Pledge
<1>3. anchors \in Seq(Anchored) /\ reading \in Seq([generation : Generations, now : Nat]) /\ Distinct(anchors)
  BY DEF FeedInit, Distinct
<1>. QED BY <1>1, <1>2, <1>3 DEF FeedInit, AnchorInv

(* A retry within its anchor's time is scored at the hour of its first try *)
(* (_freshness_reference), for any generations, capacity and clock.        *)
THEOREM RetriesTheorem == FeedSpec => []RetriesAnchored
<1>1. AnchorInv => RetriesAnchored
  BY DEF AnchorInv, RetriesAnchored
<1>. QED BY <1>1, AnchorStarts, AnchorSteps, PTL DEF FeedSpec

---------------------------------------------------------------------------
(* Walks by a stride *)

LEMMA Multiple == ASSUME NEW a \in Nat, NEW q \in Nat \ {0}, NEW t \in Nat, a = q * t PROVE a % q = 0
OBVIOUS

LEMMA Divided ==
  ASSUME NEW a \in Nat, NEW q \in Nat \ {0}
  PROVE  a = q * (a \div q) + (a % q) /\ a % q \in 0 .. q - 1 /\ a \div q \in Nat
OBVIOUS

LEMMA Cancel == ASSUME NEW k \in Nat \ {0}, NEW a \in Nat, NEW b \in Nat, k * a = k * b PROVE a = b
OBVIOUS

LEMMA Rest ==
  ASSUME NEW k \in Nat, NEW r \in Nat, NEW n \in Nat, NEW q \in Nat, NEW s \in Nat, NEW t \in Nat, n = k * q + r, k * s = n * t
  PROVE  r * s = n * (s - q * t)
<1>1. n * s = k * q * s + r * s
  OBVIOUS
<1>2. k * q * s = q * (k * s)
  OBVIOUS
<1>. QED BY <1>1, <1>2

LEMMA Quotient == ASSUME NEW n \in Nat \ {0}, NEW z \in Int, NEW p \in Nat, p = n * z PROVE z \in Nat
OBVIOUS

(* A stride that shares no divisor with the size comes back to its start   *)
(* only after as many steps as the size.                                   *)
LEMMA StrideReaches ==
  ASSUME NEW n \in Nat \ {0}, NEW s \in Nat, Coprime(s, n), NEW k \in Nat \ {0}, NEW t \in Nat, k * s = n * t
  PROVE  n <= k
<1>. DEFINE D == {i \in Nat \ {0} : \E j \in Nat : i * s = n * j}
<1>1. k \in D /\ n \in D /\ D \in SUBSET Nat
  OBVIOUS
<1>2. PICK least \in D : \A i \in D : least <= i
  <2>. HIDE DEF D
  <2>. QED BY <1>1, Least
<1>3. least \in Nat \ {0} /\ least <= n /\ least <= k
  BY <1>1, <1>2
<1>4. PICK j \in Nat : least * s = n * j
  BY <1>2
<1>. DEFINE q == n \div least
            r == n % least
<1>5. n = least * q + r /\ r \in 0 .. least - 1 /\ q \in Nat /\ r \in Nat
  <2>1. least \in Nat \ {0} /\ n \in Nat
    BY <1>3
  <2>2. n = least * q + r /\ r \in 0 .. least - 1 /\ q \in Nat
    BY <2>1, Divided
  <2>. QED BY <2>1, <2>2
<1>. HIDE DEF q, r
<1>6. r * s = n * (s - q * j)
  BY <1>3, <1>4, <1>5, Rest
<1>7. s - q * j \in Nat
  <2>1. r * s \in Nat /\ s - q * j \in Int
    BY <1>5
  <2>. QED BY <1>6, <2>1, Quotient
<1>8. r = 0
  <2>. SUFFICES ASSUME r # 0 PROVE FALSE
    OBVIOUS
  <2>1. r \in D
    BY <1>5, <1>6, <1>7
  <2>2. least <= r
    BY <2>1, <1>2
  <2>. QED BY <2>2, <1>3, <1>5
<1>9. n = least * q /\ q # 0
  BY <1>3, <1>5, <1>8
<1>10. s = q * j
  <2>1. least * s = least * (q * j) /\ q * j \in Nat
    BY <1>3, <1>4, <1>5, <1>9
  <2>. QED BY <1>3, <2>1, Cancel
<1>11. q \in Nat \ {0} /\ n = q * least
  BY <1>3, <1>5, <1>9
<1>12. s % q = 0 /\ n % q = 0
  BY <1>3, <1>10, <1>11, Multiple
<1>13. q <= n
  BY <1>3, <1>11
<1>14. q \notin 2 .. n
  BY <1>12 DEF Coprime
<1>15. q = 1
  BY <1>5, <1>9, <1>13, <1>14
<1>16. n = least
  BY <1>3, <1>11, <1>15
<1>. QED BY <1>3, <1>16

(* So the stops of a walk are all different. *)
LEMMA StopsDiffer ==
  ASSUME NEW n \in Nat \ {0}, NEW s \in Nat, Coprime(s, n), NEW start \in Nat,
         NEW a \in 0 .. n - 1, NEW b \in 0 .. n - 1, (start + a * s) % n = (start + b * s) % n
  PROVE  a = b
<1>1. ASSUME NEW x \in 0 .. n - 1, NEW y \in 0 .. n - 1, x < y, (start + x * s) % n = (start + y * s) % n PROVE FALSE
  <2>. DEFINE u == start + x * s
              v == start + y * s
  <2>1. u \in Nat /\ v \in Nat /\ v - u = (y - x) * s /\ v >= u
    BY <1>1
  <2>2. v - u = (y - x) * s
    BY <2>1
  <2>. HIDE DEF u, v
  <2>3. u = n * (u \div n) + (u % n) /\ v = n * (v \div n) + (v % n) /\ u \div n \in Nat /\ v \div n \in Nat /\ u % n = v % n
    BY <2>1, <1>1, Divided DEF u, v
  <2>. DEFINE t == (v \div n) - (u \div n)
  <2>4. t \in Int /\ v - u = n * t
    <3>1. PICK i \in Nat, j \in Nat, m \in Nat : i = v \div n /\ j = u \div n /\ m = u % n /\ v = n * i + m /\ u = n * j + m
      <4>1. u % n \in Nat
        BY <2>1
      <4>. QED BY <2>3, <4>1
    <3>2. n * i + m - (n * j + m) = n * (i - j)
      OBVIOUS
    <3>. QED BY <3>1, <3>2
  <2>5. v - u \in Nat
    BY <2>1
  <2>. HIDE DEF t
  <2>6. t \in Nat
    BY <2>4, <2>5, Quotient
  <2>7. y - x \in Nat \ {0} /\ (y - x) * s = n * t
    BY <1>1, <2>2, <2>4
  <2>8. n <= y - x
    BY <2>6, <2>7, StrideReaches
  <2>. QED BY <2>8, <1>1
<1>. QED BY <1>1

LEMMA StrideFits ==
  ASSUME NEW n \in Nat \ {0}, NEW m \in Nat \ {0}
  PROVE  Stride(m, n) \in Nat /\ Coprime(Stride(m, n), n)
<1>1. Coprime(1, n)
  <2>. SUFFICES ASSUME NEW d \in 2 .. n PROVE 1 % d # 0
    BY DEF Coprime
  <2>. QED OBVIOUS
<1>. DEFINE fit == {s \in m .. (n - 1) : Coprime(s, n)}
<1>2. CASE n = 1 \/ fit = {}
  <2>1. Stride(m, n) = 1
    BY <1>2 DEF Stride
  <2>. QED BY <1>1, <2>1
<1>3. CASE n # 1 /\ fit # {}
  <2>1. Stride(m, n) = Min(fit)
    BY <1>3 DEF Stride
  <2>2. fit \in SUBSET Nat
    OBVIOUS
  <2>3. PICK x \in fit : \A y \in fit : x <= y
    BY <1>3, <2>2, Least
  <2>4. Min(fit) \in fit
    BY <2>3 DEF Min
  <2>. QED BY <2>1, <2>2, <2>4
<1>. QED BY <1>2, <1>3

---------------------------------------------------------------------------
(* Sequences in order, their parts, and the order a page is cut from *)

(* The members of a set of numbers in order, each once. *)
LEMMA InOrder ==
  ASSUME NEW S \in SUBSET Nat, IsFiniteSet(S)
  PROVE  /\ AsRanked(S) \in Seq(S) /\ IsInjective(AsRanked(S)) /\ ToSet(AsRanked(S)) = S
         /\ Len(AsRanked(S)) = Cardinality(S) /\ Cardinality(S) \in Nat
<1>. DEFINE n == Cardinality(S)
            R(c) == Cardinality({j \in S : j < c})
            s == AsRanked(S)
<1>1. /\ n \in Nat /\ \A c, e \in S : R(c) = R(e) => c = e
      /\ \A k \in 0 .. n - 1 : \E c \in S : R(c) = k
  BY RanksDiffer
<1>2. \A c \in S : R(c) \in 0 .. n - 1
  BY RankIn
<1>3. s = [k \in 1 .. n |-> CHOOSE i \in S : R(i) = k - 1]
  BY DEF AsRanked
<1>. HIDE DEF n, R, s
<1>4. ASSUME NEW k \in 1 .. n PROVE s[k] \in S /\ R(s[k]) = k - 1
  <2>1. k - 1 \in 0 .. n - 1
    BY <1>1
  <2>2. \E c \in S : R(c) = k - 1
    BY <1>1, <2>1
  <2>. QED BY <1>3, <2>2
<1>5. s \in Seq(S) /\ Len(s) = n /\ DOMAIN s = 1 .. n
  BY <1>1, <1>3, <1>4
<1>6. IsInjective(s)
  <2>. SUFFICES ASSUME NEW i \in 1 .. n, NEW j \in 1 .. n, s[i] = s[j] PROVE i = j
    BY <1>5 DEF IsInjective
  <2>1. i - 1 = j - 1
    BY <1>4
  <2>. QED BY <2>1
<1>7. ToSet(s) = S
  <2>1. ASSUME NEW c \in S PROVE \E k \in 1 .. n : s[k] = c
    <3>1. PICK k \in 1 .. n : k - 1 = R(c)
      <4>1. R(c) + 1 \in 1 .. n /\ (R(c) + 1) - 1 = R(c)
        BY <1>1, <1>2
      <4>. QED BY <4>1
    <3>2. s[k] \in S /\ R(s[k]) = R(c)
      BY <3>1, <1>4
    <3>3. s[k] = c
      BY <3>2, <1>1
    <3>. QED BY <3>3
  <2>. QED BY <2>1, <1>4, <1>5 DEF ToSet
<1>. QED BY <1>1, <1>5, <1>6, <1>7 DEF n, s

(* One sequence behind another that shares nothing with it. *)
LEMMA Joined ==
  ASSUME NEW S, NEW s \in Seq(S), NEW t \in Seq(S), IsInjective(s), IsInjective(t), ToSet(s) \cap ToSet(t) = {}
  PROVE  /\ s \o t \in Seq(S) /\ IsInjective(s \o t) /\ ToSet(s \o t) = ToSet(s) \cup ToSet(t)
         /\ Len(s \o t) = Len(s) + Len(t)
         /\ \A k \in 1 .. Len(s) : (s \o t)[k] = s[k]
<1>. DEFINE u == s \o t
<1>1. PICK m \in Nat, n \in Nat : m = Len(s) /\ DOMAIN s = 1 .. m /\ n = Len(t) /\ DOMAIN t = 1 .. n
  BY LenProperties
<1>2. u \in Seq(S) /\ Len(u) = m + n /\ \A k \in 1 .. m + n : u[k] = IF k <= m THEN s[k] ELSE t[k - m]
  BY <1>1, ConcatProperties
<1>3. DOMAIN u = 1 .. m + n
  BY <1>2, LenProperties
<1>. HIDE DEF u
<1>4. \A k \in 1 .. m : k \in 1 .. m + n /\ u[k] = s[k]
  BY <1>2
<1>5. ASSUME NEW k \in 1 .. n PROVE k + m \in 1 .. m + n /\ u[k + m] = t[k]
  <2>1. k + m \in 1 .. m + n /\ ~(k + m <= m) /\ k + m - m = k
    OBVIOUS
  <2>2. u[k + m] = t[k + m - m]
    BY <2>1, <1>2
  <2>. QED BY <2>1, <2>2
<1>6. \A k \in 1 .. m + n : k \in 1 .. m \/ \E j \in 1 .. n : k = j + m
  <2>. SUFFICES ASSUME NEW k \in 1 .. m + n, k \notin 1 .. m PROVE k - m \in 1 .. n /\ k = (k - m) + m
    OBVIOUS
  <2>. QED OBVIOUS
<1>7. \A i \in 1 .. m, j \in 1 .. n : s[i] # t[j]
  BY <1>1 DEF ToSet
<1>8. IsInjective(u)
  <2>. SUFFICES ASSUME NEW i \in 1 .. m + n, NEW j \in 1 .. m + n, u[i] = u[j] PROVE i = j
    BY <1>3 DEF IsInjective
  <2>1. CASE i \in 1 .. m /\ j \in 1 .. m
    BY <2>1, <1>1, <1>4 DEF IsInjective
  <2>2. CASE i \in 1 .. m /\ j \notin 1 .. m
    <3>1. PICK y \in 1 .. n : j = y + m
      BY <2>2, <1>6
    <3>. QED BY <3>1, <2>2, <1>4, <1>5, <1>7
  <2>3. CASE i \notin 1 .. m /\ j \in 1 .. m
    <3>1. PICK x \in 1 .. n : i = x + m
      BY <2>3, <1>6
    <3>. QED BY <3>1, <2>3, <1>4, <1>5, <1>7
  <2>4. CASE i \notin 1 .. m /\ j \notin 1 .. m
    <3>1. PICK x \in 1 .. n : i = x + m
      BY <2>4, <1>6
    <3>2. PICK y \in 1 .. n : j = y + m
      BY <2>4, <1>6
    <3>3. t[x] = t[y]
      BY <3>1, <3>2, <1>5
    <3>. QED BY <3>1, <3>2, <3>3, <1>1 DEF IsInjective
  <2>. QED BY <2>1, <2>2, <2>3, <2>4
<1>9. ToSet(u) = ToSet(s) \cup ToSet(t)
  <2>1. \A x : x \in ToSet(u) <=> \E k \in 1 .. m + n : u[k] = x
    BY <1>3 DEF ToSet
  <2>2. \A x : x \in ToSet(s) <=> \E k \in 1 .. m : s[k] = x
    BY <1>1 DEF ToSet
  <2>3. \A x : x \in ToSet(t) <=> \E k \in 1 .. n : t[k] = x
    BY <1>1 DEF ToSet
  <2>4. ASSUME NEW k \in 1 .. m + n PROVE u[k] \in ToSet(s) \cup ToSet(t)
    <3>1. CASE k \in 1 .. m
      BY <3>1, <2>2, <1>4
    <3>2. CASE k \notin 1 .. m
      <4>1. PICK j \in 1 .. n : k = j + m
        BY <3>2, <1>6
      <4>. QED BY <4>1, <2>3, <1>5
    <3>. QED BY <3>1, <3>2
  <2>5a. ASSUME NEW x \in ToSet(s) PROVE x \in ToSet(u)
    <3>1. PICK k \in 1 .. m : s[k] = x
      BY <2>2
    <3>. QED BY <3>1, <2>1, <1>4
  <2>5b. ASSUME NEW x \in ToSet(t) PROVE x \in ToSet(u)
    <3>1. PICK k \in 1 .. n : t[k] = x
      BY <2>3
    <3>2. k + m \in 1 .. m + n /\ u[k + m] = x
      BY <3>1, <1>5
    <3>. QED BY <3>2, <2>1
  <2>5. \A x \in ToSet(s) \cup ToSet(t) : x \in ToSet(u)
    BY <2>5a, <2>5b
  <2>. QED BY <2>1, <2>4, <2>5
<1>. QED BY <1>1, <1>2, <1>4, <1>8, <1>9 DEF u

(* A part of a sequence. *)
LEMMA PartOf ==
  ASSUME NEW S, NEW s \in Seq(S), IsInjective(s), NEW a \in Nat \ {0}, NEW b \in Nat, a <= b + 1, b <= Len(s)
  PROVE  /\ SubSeq(s, a, b) \in Seq(S) /\ IsInjective(SubSeq(s, a, b)) /\ Len(SubSeq(s, a, b)) = b - a + 1
         /\ ToSet(SubSeq(s, a, b)) = {s[k] : k \in a .. b}
         /\ \A k \in 1 .. b - a + 1 : SubSeq(s, a, b)[k] = s[a + k - 1]
<1>. DEFINE u == SubSeq(s, a, b)
<1>1. PICK n \in Nat : n = Len(s) /\ DOMAIN s = 1 .. n /\ b <= n /\ \A k \in 1 .. n : s[k] \in S
  BY LenProperties, ElementOfSeq
<1>2. \A k \in a .. b : k \in 1 .. n /\ s[k] \in S
  BY <1>1
<1>3. u \in Seq(S) /\ Len(u) = b - a + 1 /\ \A k \in 1 .. b - a + 1 : u[k] = s[a + k - 1]
  <2>1. /\ u \in Seq(S) /\ Len(u) = (IF a <= b THEN b - a + 1 ELSE 0)
        /\ \A k \in 1 .. b - a + 1 : u[k] = s[a + k - 1]
    BY <1>2, SubSeqProperties
  <2>2. (IF a <= b THEN b - a + 1 ELSE 0) = b - a + 1
    OBVIOUS
  <2>. QED BY <2>1, <2>2
<1>4. DOMAIN u = 1 .. b - a + 1
  BY <1>3, LenProperties
<1>. HIDE DEF u
<1>5. \A k \in 1 .. b - a + 1 : a + k - 1 \in a .. b
  OBVIOUS
<1>6. IsInjective(u)
  <2>. SUFFICES ASSUME NEW i \in 1 .. b - a + 1, NEW j \in 1 .. b - a + 1, u[i] = u[j] PROVE i = j
    BY <1>4 DEF IsInjective
  <2>1. a + i - 1 = a + j - 1
    BY <1>1, <1>2, <1>3, <1>5 DEF IsInjective
  <2>. QED BY <2>1
<1>7. ToSet(u) = {s[k] : k \in a .. b}
  <2>1. ASSUME NEW k \in a .. b PROVE \E j \in 1 .. b - a + 1 : u[j] = s[k]
    <3>1. k - a + 1 \in 1 .. b - a + 1 /\ a + (k - a + 1) - 1 = k
      OBVIOUS
    <3>. QED BY <3>1, <1>3
  <2>2. ASSUME NEW j \in 1 .. b - a + 1 PROVE \E k \in a .. b : u[j] = s[k]
    BY <1>3, <1>5
  <2>3. ToSet(u) = {u[j] : j \in 1 .. b - a + 1}
    BY <1>4 DEF ToSet
  <2>4. \A x \in ToSet(u) : \E k \in a .. b : x = s[k]
    BY <2>2, <2>3
  <2>5. \A k \in a .. b : s[k] \in ToSet(u)
    BY <2>1, <2>3
  <2>. HIDE DEF u
  <2>6. ToSet(u) \subseteq {s[k] : k \in a .. b}
    BY <2>4
  <2>7. {s[k] : k \in a .. b} \subseteq ToSet(u)
    BY <2>5
  <2>. QED BY <2>6, <2>7
<1>. QED BY <1>3, <1>6, <1>7 DEF u

(* A sequence cut in two. *)
LEMMA CutInTwo ==
  ASSUME NEW S, NEW s \in Seq(S), IsInjective(s), NEW m \in 0 .. Len(s)
  PROVE  LET front == SubSeq(s, 1, m)
             back == SubSeq(s, m + 1, Len(s))
         IN  /\ front \in Seq(S) /\ IsInjective(front) /\ Len(front) = m
             /\ back \in Seq(S) /\ IsInjective(back) /\ Len(back) = Len(s) - m
             /\ ToSet(front) \cap ToSet(back) = {} /\ ToSet(front) \cup ToSet(back) = ToSet(s)
<1>. DEFINE front == SubSeq(s, 1, m)
            back == SubSeq(s, m + 1, Len(s))
<1>1. PICK n \in Nat : n = Len(s) /\ DOMAIN s = 1 .. n /\ m \in 0 .. n
  BY LenProperties
<1>2. front \in Seq(S) /\ IsInjective(front) /\ Len(front) = m /\ ToSet(front) = {s[k] : k \in 1 .. m}
  <2>1. 1 \in Nat \ {0} /\ m \in Nat /\ 1 <= m + 1 /\ m <= Len(s) /\ m - 1 + 1 = m
    BY <1>1
  <2>2. front \in Seq(S) /\ IsInjective(front) /\ Len(front) = m - 1 + 1
    BY <2>1, PartOf
  <2>3. ToSet(front) = {s[k] : k \in 1 .. m}
    BY <2>1, PartOf
  <2>. QED BY <2>1, <2>2, <2>3
<1>3. back \in Seq(S) /\ IsInjective(back) /\ Len(back) = n - m /\ ToSet(back) = {s[k] : k \in m + 1 .. n}
  <2>1. m + 1 \in Nat \ {0} /\ n \in Nat /\ m + 1 <= n + 1 /\ n <= Len(s) /\ n - (m + 1) + 1 = n - m
    BY <1>1
  <2>2. SubSeq(s, m + 1, n) \in Seq(S) /\ IsInjective(SubSeq(s, m + 1, n)) /\ Len(SubSeq(s, m + 1, n)) = n - (m + 1) + 1
    BY <2>1, PartOf
  <2>3. ToSet(SubSeq(s, m + 1, n)) = {s[k] : k \in m + 1 .. n}
    BY <2>1, PartOf
  <2>. QED BY <2>1, <2>2, <2>3, <1>1
<1>. HIDE DEF front, back
<1>4. \A k \in 1 .. n : (k \in 1 .. m \/ k \in m + 1 .. n) /\ ~(k \in 1 .. m /\ k \in m + 1 .. n)
  BY <1>1
<1>5. \A k : k \in 1 .. m \/ k \in m + 1 .. n => k \in 1 .. n
  BY <1>1
<1>6. ToSet(s) = {s[k] : k \in 1 .. n}
  BY <1>1 DEF ToSet
<1>7. ToSet(front) \cup ToSet(back) = ToSet(s)
  BY <1>2, <1>3, <1>4, <1>5, <1>6
<1>8. ToSet(front) \cap ToSet(back) = {}
  <2>. SUFFICES ASSUME NEW x, x \in ToSet(front), x \in ToSet(back) PROVE FALSE
    OBVIOUS
  <2>1. PICK i \in 1 .. m : x = s[i]
    BY <1>2
  <2>2. PICK j \in m + 1 .. n : x = s[j]
    BY <1>3
  <2>3. i = j
    BY <2>1, <2>2, <1>1, <1>5 DEF IsInjective
  <2>. QED BY <2>1, <2>2, <2>3
<1>. QED BY <1>1, <1>2, <1>3, <1>7, <1>8 DEF front, back

LEMMA PageBounds ==
  /\ IsFiniteSet(Ranked) /\ Ranked \in SUBSET Nat /\ MaxSameLanguage \in Nat \ {0} /\ NoLanguage \notin Languages
  /\ Targets \in SUBSET Nat /\ Shares \in SUBSET Nat
  /\ \A set \in SUBSET Ranked : IsFiniteSet(set) /\ Cardinality(set) \in Nat
<1>1. /\ IsFiniteSet(Ranked) /\ Ranked \in SUBSET Nat /\ MaxSameLanguage \in Nat \ {0} /\ NoLanguage \notin Languages
      /\ Targets \in SUBSET Nat /\ Shares \in SUBSET Nat
  BY FeedAssumption
<1>. QED BY <1>1, FS_Subset, FS_CardinalityType

LEMMA SpeakingGrows ==
  ASSUME NEW set \in SUBSET Ranked, NEW part \in SUBSET set, NEW l
  PROVE  /\ Cardinality(Speaking(part, l)) \in Nat /\ Cardinality(Speaking(set, l)) \in Nat
         /\ Cardinality(Speaking(part, l)) <= Cardinality(Speaking(set, l))
         /\ IsFiniteSet(Speaking(part, l)) /\ IsFiniteSet(Speaking(set, l))
<1>1. Speaking(set, l) \in SUBSET Ranked /\ Speaking(part, l) \in SUBSET Speaking(set, l) /\ Speaking(part, l) \in SUBSET Ranked
  BY DEF Speaking
<1>. QED BY <1>1, PageBounds, FS_Subset

(* A full language stays full in a larger page. *)
LEMMA CapGrows ==
  ASSUME NEW set \in SUBSET Ranked, NEW part \in SUBSET set, NEW i, AtCap(part, i)
  PROVE  AtCap(set, i)
<1>1. /\ Cardinality(Speaking(part, language[i])) \in Nat /\ Cardinality(Speaking(set, language[i])) \in Nat
      /\ Cardinality(Speaking(part, language[i])) <= Cardinality(Speaking(set, language[i]))
  BY SpeakingGrows
<1>. QED BY <1>1, PageBounds DEF AtCap

\* Whoever is within the caps of the order.
Within == unseen \ Overflow

(* Everybody within the caps comes first, and whoever is not has a         *)
(* language that fills its cap among them.                                 *)
LEMMA WithinCaps ==
  ASSUME unseen \in SUBSET Ranked
  PROVE  /\ \A l \in Languages : Cardinality(Speaking(Within, l)) <= MaxSameLanguage
         /\ \A i \in Overflow : AtCap(Within, i)
<1>1. ASSUME NEW l, l # NoLanguage
      PROVE  /\ Cardinality(Speaking(Within, l)) \in Nat /\ Cardinality(Speaking(unseen, l)) \in Nat
             /\ Cardinality(Speaking(Within, l)) = IF MaxSameLanguage <= Cardinality(Speaking(unseen, l))
                                                   THEN MaxSameLanguage ELSE Cardinality(Speaking(unseen, l))
  <2>. DEFINE S == Speaking(unseen, l)
  <2>1. S \in SUBSET Nat /\ S \in SUBSET Ranked /\ IsFiniteSet(S) /\ Cardinality(S) \in Nat
    BY PageBounds, SpeakingGrows DEF Speaking
  <2>2. \A c \in S : Speaking({j \in unseen : j < c}, language[c]) = {d \in S : d < c} /\ language[c] = l
    BY DEF Speaking
  <2>3. \A c \in S : Cardinality({d \in S : d < c}) \in 0 .. Cardinality(S) - 1
    <3>. HIDE DEF S
    <3>. QED BY <2>1, RankIn
  <2>4. \A c \in S : AtCap({j \in unseen : j < c}, c) <=> ~(Cardinality({d \in S : d < c}) < MaxSameLanguage)
    <3>. SUFFICES ASSUME NEW c \in S
                  PROVE  AtCap({j \in unseen : j < c}, c) <=> ~(Cardinality({d \in S : d < c}) < MaxSameLanguage)
      OBVIOUS
    <3>1. AtCap({j \in unseen : j < c}, c) <=> Cardinality({d \in S : d < c}) >= MaxSameLanguage
      BY <1>1, <2>2 DEF AtCap
    <3>2. Cardinality({d \in S : d < c}) \in Nat
      BY <2>3
    <3>3. Cardinality({d \in S : d < c}) >= MaxSameLanguage <=> ~(Cardinality({d \in S : d < c}) < MaxSameLanguage)
      BY <3>2, PageBounds
    <3>. QED BY <3>1, <3>3
  <2>5. Speaking(Within, l) = Best(S, MaxSameLanguage)
    <3>1. \A c : c \in Speaking(Within, l) <=> c \in S /\ ~AtCap({j \in unseen : j < c}, c)
      BY DEF Speaking, Within, Overflow
    <3>. HIDE DEF S
    <3>. QED BY <3>1, <2>4 DEF Best
  <2>. HIDE DEF S
  <2>6. /\ Best(S, MaxSameLanguage) \in SUBSET S
        /\ Cardinality(Best(S, MaxSameLanguage)) = IF MaxSameLanguage <= Cardinality(S) THEN MaxSameLanguage ELSE Cardinality(S)
    BY <2>1, PageBounds, BestCard
  <2>. QED BY <2>1, <2>5, <2>6, PageBounds DEF S
<1>2. ASSUME NEW l \in Languages PROVE Cardinality(Speaking(Within, l)) <= MaxSameLanguage
  BY <1>1, PageBounds
<1>3. ASSUME NEW i \in Overflow PROVE AtCap(Within, i)
  <2>1. /\ language[i] # NoLanguage
        /\ Cardinality(Speaking({j \in unseen : j < i}, language[i])) >= MaxSameLanguage
    BY DEF Overflow, AtCap
  <2>2. /\ Cardinality(Speaking({j \in unseen : j < i}, language[i])) \in Nat
        /\ Cardinality(Speaking({j \in unseen : j < i}, language[i])) <= Cardinality(Speaking(unseen, language[i]))
        /\ Cardinality(Speaking(unseen, language[i])) \in Nat
    <3>. DEFINE early == {j \in unseen : j < i}
    <3>1. early \in SUBSET unseen
      OBVIOUS
    <3>. HIDE DEF early
    <3>2. /\ Cardinality(Speaking(early, language[i])) \in Nat
          /\ Cardinality(Speaking(early, language[i])) <= Cardinality(Speaking(unseen, language[i]))
          /\ Cardinality(Speaking(unseen, language[i])) \in Nat
      BY <3>1, SpeakingGrows
    <3>. QED BY <3>2 DEF early
  <2>3. Cardinality(Speaking(unseen, language[i])) >= MaxSameLanguage
    BY <2>1, <2>2, PageBounds
  <2>4. Cardinality(Speaking(Within, language[i])) = MaxSameLanguage
    BY <1>1, <2>1, <2>2, <2>3, PageBounds
  <2>. QED BY <2>1, <2>4, PageBounds DEF AtCap
<1>. QED BY <1>2, <1>3

LEMMA OrderedAll ==
  ASSUME unseen \in SUBSET Ranked
  PROVE  /\ Ordered \in Seq(unseen) /\ IsInjective(Ordered) /\ ToSet(Ordered) = unseen
         /\ Len(Ordered) = Cardinality(unseen) /\ Cardinality(unseen) \in Nat
         /\ Len(AsRanked(Within)) \in 0 .. Len(Ordered)
         /\ ToSet(SubSeq(Ordered, 1, Len(AsRanked(Within)))) = Within
<1>. DEFINE a == AsRanked(Within)
            b == AsRanked(Overflow)
<1>1. Within \in SUBSET Nat /\ Overflow \in SUBSET Nat /\ IsFiniteSet(Within) /\ IsFiniteSet(Overflow)
      /\ Within \in SUBSET unseen /\ Overflow \in SUBSET unseen /\ Within \cap Overflow = {} /\ Within \cup Overflow = unseen
  <2>1. Within \in SUBSET unseen /\ Overflow \in SUBSET unseen /\ Within \cap Overflow = {} /\ Within \cup Overflow = unseen
    BY DEF Within, Overflow
  <2>. QED BY <2>1, PageBounds
<1>2. a \in Seq(Within) /\ IsInjective(a) /\ ToSet(a) = Within
  BY <1>1, InOrder
<1>3. b \in Seq(Overflow) /\ IsInjective(b) /\ ToSet(b) = Overflow
  BY <1>1, InOrder
<1>4. a \in Seq(unseen) /\ b \in Seq(unseen)
  BY <1>1, <1>2, <1>3, SeqMonotonic
<1>5. Ordered = a \o b
  BY DEF Ordered, Within
<1>. HIDE DEF a, b
<1>6. /\ Ordered \in Seq(unseen) /\ IsInjective(Ordered) /\ ToSet(Ordered) = unseen
      /\ Len(Ordered) = Len(a) + Len(b) /\ \A k \in 1 .. Len(a) : Ordered[k] = a[k]
  <2>1. ToSet(a) \cap ToSet(b) = {} /\ ToSet(a) \cup ToSet(b) = unseen
    BY <1>1, <1>2, <1>3
  <2>2. /\ a \o b \in Seq(unseen) /\ IsInjective(a \o b) /\ ToSet(a \o b) = ToSet(a) \cup ToSet(b)
        /\ Len(a \o b) = Len(a) + Len(b) /\ \A k \in 1 .. Len(a) : (a \o b)[k] = a[k]
    BY <1>2, <1>3, <1>4, <2>1, Joined
  <2>. QED BY <1>5, <2>1, <2>2
<1>7. Len(Ordered) = Cardinality(unseen) /\ Cardinality(unseen) \in Nat
  BY <1>6, InjectiveLength, PageBounds
<1>8. Len(a) \in Nat /\ Len(b) \in Nat
  BY <1>4, LenProperties
<1>9. ToSet(SubSeq(Ordered, 1, Len(a))) = Within
  <2>1. Len(a) <= Len(Ordered) /\ 1 \in Nat \ {0} /\ 1 <= Len(a) + 1
    BY <1>6, <1>8
  <2>2. ToSet(SubSeq(Ordered, 1, Len(a))) = {Ordered[k] : k \in 1 .. Len(a)}
    BY <1>6, <1>8, <2>1, PartOf
  <2>3. ToSet(a) = {a[k] : k \in 1 .. Len(a)}
    BY <1>4, LenProperties DEF ToSet
  <2>. QED BY <2>2, <2>3, <1>2, <1>6
<1>. QED BY <1>6, <1>7, <1>8, <1>9 DEF a

(* Where the best of the pool hold more of a language than the cap, every  *)
(* candidate behind them has a language that is full.                      *)
LEMMA PrefixFull ==
  ASSUME unseen \in SUBSET Ranked, NEW p \in 0 .. Len(Ordered),
         NEW l \in Languages, Cardinality(Speaking(ToSet(SubSeq(Ordered, 1, p)), l)) > MaxSameLanguage,
         NEW i \in unseen \ ToSet(SubSeq(Ordered, 1, p))
  PROVE  AtCap(ToSet(SubSeq(Ordered, 1, p)), i)
<1>. DEFINE P == ToSet(SubSeq(Ordered, 1, p))
            a == Len(AsRanked(Within))
<1>1. /\ Ordered \in Seq(unseen) /\ IsInjective(Ordered) /\ ToSet(Ordered) = unseen /\ Len(Ordered) \in Nat
      /\ a \in 0 .. Len(Ordered) /\ ToSet(SubSeq(Ordered, 1, a)) = Within
  BY OrderedAll
<1>. HIDE DEF a
<1>2. \A m \in 0 .. Len(Ordered) : ToSet(SubSeq(Ordered, 1, m)) = {Ordered[k] : k \in 1 .. m}
  <2>. SUFFICES ASSUME NEW m \in 0 .. Len(Ordered) PROVE ToSet(SubSeq(Ordered, 1, m)) = {Ordered[k] : k \in 1 .. m}
    OBVIOUS
  <2>1. m \in Nat /\ m <= Len(Ordered) /\ 1 \in Nat \ {0} /\ 1 <= m + 1
    BY <1>1
  <2>. QED BY <2>1, <1>1, PartOf
<1>3. P \in SUBSET unseen /\ unseen \in SUBSET Ranked /\ P \in SUBSET Ranked
  <2>1. P = {Ordered[k] : k \in 1 .. p}
    BY <1>2
  <2>2. \A k \in 1 .. p : Ordered[k] \in unseen
    BY <1>1, ElementOfSeq
  <2>. QED BY <2>1, <2>2
<1>4. CASE p <= a
  <2>1. P \in SUBSET Within
    <3>1. \A k \in 1 .. p : k \in 1 .. a
      BY <1>1, <1>4
    <3>2. P = {Ordered[k] : k \in 1 .. p} /\ Within = {Ordered[k] : k \in 1 .. a}
      BY <1>1, <1>2
    <3>. QED BY <3>1, <3>2
  <2>2. Within \in SUBSET Ranked
    BY DEF Within
  <2>. HIDE DEF P
  <2>3. Cardinality(Speaking(P, l)) <= Cardinality(Speaking(Within, l)) /\ Cardinality(Speaking(P, l)) \in Nat /\ Cardinality(Speaking(Within, l)) \in Nat
    BY <2>1, <2>2, SpeakingGrows
  <2>4. Cardinality(Speaking(Within, l)) <= MaxSameLanguage
    BY WithinCaps
  <2>. QED BY <2>3, <2>4, PageBounds DEF P
<1>5. CASE ~(p <= a)
  <2>1. Within \in SUBSET P
    <3>1. \A k \in 1 .. a : k \in 1 .. p
      BY <1>1, <1>5
    <3>2. P = {Ordered[k] : k \in 1 .. p} /\ Within = {Ordered[k] : k \in 1 .. a}
      BY <1>1, <1>2
    <3>. QED BY <3>1, <3>2
  <2>2. i \in Overflow
    BY <2>1 DEF Within
  <2>. HIDE DEF P
  <2>3. AtCap(Within, i)
    BY <2>2, WithinCaps
  <2>4. AtCap(P, i)
    BY <2>1, <2>3, <1>3, CapGrows
  <2>. QED BY <2>4 DEF P
<1>. QED BY <1>4, <1>5

---------------------------------------------------------------------------
(* The walk *)

\* The place of a stop in the pool, the stops so far, the candidates before
\* the walk, and what the page would show if it ended here.
Index(o) == ((walk.start + o * walk.step) % Len(walk.pool)) + 1
Stops(n) == {walk.pool[Index(o)] : o \in 0 .. n - 1}
Front0 == SizeOfPage - walk.wanted
Explored0 == ToSet(page) \cup ToSet(tier)

PageTyped ==
  /\ unseen \in SUBSET Ranked /\ target \in Nat /\ share \in Nat
  /\ walk \in [phase : {"split", "walk", "served"}, pool : Seq(unseen), offset : Nat, start : Nat, step : Nat, wanted : Nat]

\* What the walk has met is in the tail or waits for want of room.
Walking ==
  /\ walk.wanted \in 1 .. SizeOfPage
  /\ page = SubSeq(Ordered, 1, Front0)
  /\ walk.pool = SubSeq(Ordered, Front0 + 1, Len(Ordered)) /\ walk.pool # <<>>
  /\ Coprime(walk.step, Len(walk.pool)) /\ walk.offset <= Len(walk.pool)
  /\ tier \in Seq(unseen) /\ deferred \in Seq(unseen) /\ IsInjective(tier) /\ IsInjective(deferred)
  /\ ToSet(tier) \cap ToSet(deferred) = {} /\ ToSet(tier) \cup ToSet(deferred) = Stops(walk.offset)
  /\ Len(tier) <= walk.wanted
  /\ \A i \in ToSet(deferred) : AtCap(Explored0, i)
  /\ \A l \in Languages : \/ Cardinality(Speaking(Explored0, l)) <= MaxSameLanguage
                          \/ Cardinality(Speaking(ToSet(page), l)) > MaxSameLanguage

PageInv ==
  /\ PageTyped
  /\ walk.phase = "split" => tier = <<>> /\ deferred = <<>> /\ walk.wanted = 0
  /\ walk.phase = "walk" => Walking
  /\ PageHonest

LEMMA SizeTyped == ASSUME PageTyped PROVE SizeOfPage \in Nat /\ SizeOfPage <= Len(Ordered) /\ Len(Ordered) = Cardinality(unseen) /\ Len(Ordered) \in Nat
<1>1. Cardinality(unseen) \in Nat /\ Len(Ordered) = Cardinality(unseen) /\ target \in Nat
  BY OrderedAll DEF PageTyped
<1>2. SizeOfPage = IF target <= Cardinality(unseen) THEN target ELSE Cardinality(unseen)
  BY <1>1, TwoMin DEF SizeOfPage
<1>. QED BY <1>1, <1>2

LEMMA RoomBefore == ASSUME NEW z \in Nat, NEW n \in Nat, z <= n, NEW w \in 1 .. z PROVE z - w \in 0 .. n /\ z - w \in Nat
OBVIOUS

(* The page before the walk and the pool it walks share nothing. *)
LEMMA PoolApart ==
  ASSUME PageTyped, Walking
  PROVE  /\ page \in Seq(unseen) /\ IsInjective(page) /\ Len(page) = Front0 /\ Front0 \in Nat
         /\ walk.pool \in Seq(unseen) /\ IsInjective(walk.pool) /\ Len(walk.pool) = Len(Ordered) - Front0 /\ Len(walk.pool) \in Nat \ {0}
         /\ ToSet(page) \cap ToSet(walk.pool) = {} /\ ToSet(page) \cup ToSet(walk.pool) = unseen
<1>1. Ordered \in Seq(unseen) /\ IsInjective(Ordered) /\ ToSet(Ordered) = unseen
  BY OrderedAll DEF PageTyped
<1>2. SizeOfPage \in Nat /\ SizeOfPage <= Len(Ordered) /\ Len(Ordered) \in Nat
  BY SizeTyped
<1>3. Front0 \in 0 .. Len(Ordered) /\ Front0 \in Nat
  <2>1. walk.wanted \in 1 .. SizeOfPage /\ Front0 = SizeOfPage - walk.wanted
    BY DEF Front0, Walking
  <2>. QED BY <1>2, <2>1, RoomBefore
<1>4. /\ page \in Seq(unseen) /\ IsInjective(page) /\ Len(page) = Front0
      /\ walk.pool \in Seq(unseen) /\ IsInjective(walk.pool) /\ Len(walk.pool) = Len(Ordered) - Front0
      /\ ToSet(page) \cap ToSet(walk.pool) = {} /\ ToSet(page) \cup ToSet(walk.pool) = unseen
  <2>1. page = SubSeq(Ordered, 1, Front0) /\ walk.pool = SubSeq(Ordered, Front0 + 1, Len(Ordered))
    BY DEF Walking
  <2>. QED BY <1>1, <1>3, <2>1, CutInTwo
<1>5. Len(walk.pool) \in Nat \ {0}
  <2>1. walk.pool # <<>>
    BY DEF Walking
  <2>. QED BY <2>1, <1>4, EmptySeq
<1>. QED BY <1>3, <1>4, <1>5

LEMMA IndexIn ==
  ASSUME PageTyped, Walking, NEW o \in Nat
  PROVE  Index(o) \in 1 .. Len(walk.pool) /\ walk.pool[Index(o)] \in ToSet(walk.pool) /\ walk.pool[Index(o)] \in unseen
<1>1. PICK n \in Nat \ {0} : n = Len(walk.pool) /\ DOMAIN walk.pool = 1 .. n /\ \A k \in 1 .. n : walk.pool[k] \in unseen
  BY PoolApart, LenProperties, ElementOfSeq
<1>2. walk.start + o * walk.step \in Nat
  BY DEF PageTyped
<1>3. Index(o) \in 1 .. n
  <2>. DEFINE x == walk.start + o * walk.step
  <2>1. x \in Nat
    BY <1>2
  <2>. HIDE DEF x
  <2>2. x % n \in 0 .. n - 1
    BY <2>1
  <2>3. Index(o) = (x % n) + 1
    BY <1>1 DEF Index, x
  <2>. QED BY <2>2, <2>3
<1>. QED BY <1>1, <1>3 DEF ToSet

(* The stops of the walk differ. *)
LEMMA IndexDiffers ==
  ASSUME PageTyped, Walking, NEW a \in 0 .. Len(walk.pool) - 1, NEW b \in 0 .. Len(walk.pool) - 1,
         walk.pool[Index(a)] = walk.pool[Index(b)]
  PROVE  a = b
<1>1. PICK n \in Nat \ {0} : n = Len(walk.pool) /\ DOMAIN walk.pool = 1 .. n
  BY PoolApart, LenProperties
<1>2. Index(a) = Index(b)
  <2>1. Index(a) \in 1 .. n /\ Index(b) \in 1 .. n
    BY <1>1, IndexIn
  <2>. QED BY <2>1, <1>1, PoolApart DEF IsInjective
<1>3. walk.start \in Nat /\ walk.step \in Nat /\ Coprime(walk.step, n)
  BY <1>1 DEF PageTyped, Walking
<1>. DEFINE x == (walk.start + a * walk.step) % n
            y == (walk.start + b * walk.step) % n
<1>4. Index(a) = x + 1 /\ Index(b) = y + 1
  BY <1>1 DEF Index
<1>5. x \in Int /\ y \in Int
  <2>1. \A u \in Nat : u % n \in Int
    BY <1>1
  <2>0. \A c, d, k \in Nat : c + k * d \in Nat
    OBVIOUS
  <2>2. walk.start + a * walk.step \in Nat /\ walk.start + b * walk.step \in Nat
    <3>1. a \in Nat /\ b \in Nat /\ walk.start \in Nat /\ walk.step \in Nat
      BY <1>1, <1>3
    <3>. QED BY <2>0, <3>1
  <2>. QED BY <2>1, <2>2
<1>. HIDE DEF x, y
<1>6. x = y
  <2>1. x + 1 = y + 1
    BY <1>2, <1>4
  <2>. QED BY <2>1, <1>5
<1>. QED BY <1>1, <1>3, <1>6, StopsDiffer DEF x, y

LEMMA StopsGrow ==
  ASSUME PageTyped, Walking, NEW o \in 0 .. Len(walk.pool) - 1
  PROVE  Stops(o + 1) = Stops(o) \cup {walk.pool[Index(o)]} /\ walk.pool[Index(o)] \notin Stops(o)
<1>1. Len(walk.pool) \in Nat
  BY PoolApart
<1>2. \A k : k \in 0 .. (o + 1) - 1 <=> k \in 0 .. o - 1 \/ k = o
  BY <1>1
<1>3. walk.pool[Index(o)] \notin Stops(o)
  <2>. SUFFICES ASSUME NEW k \in 0 .. o - 1, walk.pool[Index(k)] = walk.pool[Index(o)] PROVE FALSE
    BY DEF Stops
  <2>1. k \in 0 .. Len(walk.pool) - 1 /\ k # o
    BY <1>1
  <2>. QED BY <2>1, IndexDiffers
<1>. QED BY <1>2, <1>3 DEF Stops

(* As many stops as the pool is large reach all of it. *)
LEMMA StopsAll ==
  ASSUME PageTyped, Walking
  PROVE  Stops(Len(walk.pool)) = ToSet(walk.pool)
<1>1. PICK n \in Nat \ {0} : n = Len(walk.pool) /\ DOMAIN walk.pool = 1 .. n
  BY PoolApart, LenProperties
<1>. DEFINE f == [o \in 0 .. n - 1 |-> walk.pool[Index(o)]]
            T == ToSet(walk.pool)
<1>2. \A o \in 0 .. n - 1 : f[o] \in T
  BY IndexIn
<1>3. \A a, b \in 0 .. n - 1 : f[a] = f[b] => a = b
  BY <1>1, IndexDiffers
<1>4. IsFiniteSet(T) /\ Cardinality(T) = n
  BY <1>1, PoolApart, InjectiveLength
<1>. HIDE DEF T
<1>5. f \in Injection(0 .. n - 1, T)
  BY <1>2, <1>3 DEF Injection, IsInjective
<1>6. Cardinality(0 .. n - 1) = n
  <2>1. 0 \in Int /\ n - 1 \in Int /\ (IF 0 > n - 1 THEN 0 ELSE (n - 1) - 0 + 1) = n
    OBVIOUS
  <2>. QED BY <2>1, FS_Interval
<1>7. f \in Surjection(0 .. n - 1, T)
  BY <1>4, <1>5, <1>6, FS_Injection
<1>8. \A x \in T : \E o \in 0 .. n - 1 : walk.pool[Index(o)] = x
  BY <1>7 DEF Surjection
<1>9. Stops(n) = {walk.pool[Index(o)] : o \in 0 .. n - 1}
  BY DEF Stops
<1>10. Stops(n) \subseteq T
  <2>. SUFFICES ASSUME NEW x \in Stops(n) PROVE x \in T
    OBVIOUS
  <2>1. PICK o \in 0 .. n - 1 : x = walk.pool[Index(o)]
    BY <1>9
  <2>2. f[o] \in T /\ f[o] = x
    BY <1>2, <2>1
  <2>. QED BY <2>2
<1>11. T \subseteq Stops(n)
  BY <1>8, <1>9
<1>12. Stops(n) = T
  BY <1>10, <1>11
<1>. QED BY <1>1, <1>12 DEF T

---------------------------------------------------------------------------
(* What is known of the order, the sizes and the languages moves with none *)
(* of the steps of a page.                                                 *)
LEMMA OrderStays ==
  ASSUME UNCHANGED <<language, unseen, target, share>>
  PROVE  /\ Ordered' = Ordered /\ SizeOfPage' = SizeOfPage
         /\ \A set, l : Speaking(set, l)' = Speaking(set, l)
         /\ \A set, i : AtCap(set, i)' <=> AtCap(set, i)
<1>1. \A set, l : Speaking(set, l)' = Speaking(set, l)
  BY DEF Speaking
<1>2. \A set, i : AtCap(set, i)' <=> AtCap(set, i)
  BY <1>1 DEF AtCap
<1>3. Overflow' = Overflow
  BY DEF Overflow, AtCap, Speaking
<1>4. Ordered' = Ordered
  BY <1>3 DEF Ordered, AsRanked
<1>5. SizeOfPage' = SizeOfPage
  BY DEF SizeOfPage
<1>. QED BY <1>1, <1>2, <1>4, <1>5

(* One more candidate of a language that has room leaves every language    *)
(* that was within its cap within it.                                      *)
LEMMA RoomForOne ==
  ASSUME NEW set \in SUBSET Ranked, NEW i \in Ranked, ~AtCap(set, i), NEW l \in Languages,
         Cardinality(Speaking(set, l)) <= MaxSameLanguage
  PROVE  Cardinality(Speaking(set \cup {i}, l)) <= MaxSameLanguage
<1>. DEFINE S == Speaking(set, l)
            T == Speaking(set \cup {i}, l)
<1>1. IsFiniteSet(S) /\ Cardinality(S) \in Nat /\ MaxSameLanguage \in Nat
  BY SpeakingGrows, PageBounds
<1>2. CASE language[i] # l
  <2>1. T = S
    BY <1>2 DEF Speaking
  <2>. QED BY <2>1
<1>3. CASE language[i] = l
  <2>1. T = S \cup {i}
    BY <1>3 DEF Speaking
  <2>2. Cardinality(S) < MaxSameLanguage
    <3>1. language[i] # NoLanguage
      BY <1>3, PageBounds
    <3>2. ~(Cardinality(S) >= MaxSameLanguage)
      BY <1>3, <3>1 DEF AtCap
    <3>. QED BY <3>2, <1>1
  <2>. HIDE DEF S, T
  <2>3. Cardinality(T) = Cardinality(S) \/ Cardinality(T) = Cardinality(S) + 1
    BY <2>1, <1>1, FS_AddElement
  <2>4. Cardinality(T) <= MaxSameLanguage
    BY <2>2, <2>3, <1>1
  <2>. QED BY <2>4 DEF T
<1>. QED BY <1>2, <1>3

LEMMA VisitKeeps == ASSUME PageInv, Visit PROVE PageInv'
<1>. DEFINE i == walk.pool[Index(walk.offset)]
<1>1. PageTyped /\ Walking /\ walk.phase = "walk"
  BY DEF PageInv, Visit
<1>2. walk.offset \in 0 .. Len(walk.pool) - 1 /\ walk.offset \in Nat
  <2>1. walk.offset < Len(walk.pool) /\ walk.offset \in Nat /\ Len(walk.pool) \in Nat
    BY <1>1, PoolApart DEF Visit, PageTyped
  <2>. QED BY <2>1
<1>3. /\ walk'.phase = "walk" /\ walk'.pool = walk.pool /\ walk'.start = walk.start /\ walk'.step = walk.step
      /\ walk'.wanted = walk.wanted /\ walk'.offset = walk.offset + 1
      /\ walk' \in [phase : {"split", "walk", "served"}, pool : Seq(unseen), offset : Nat, start : Nat, step : Nat, wanted : Nat]
  <2>1. walk \in [phase : {"split", "walk", "served"}, pool : Seq(unseen), offset : Nat, start : Nat, step : Nat, wanted : Nat]
    BY <1>1 DEF PageTyped
  <2>2. walk' = [phase |-> walk.phase, pool |-> walk.pool, offset |-> walk.offset + 1, start |-> walk.start,
                 step |-> walk.step, wanted |-> walk.wanted]
    BY <2>1 DEF Visit
  <2>3. walk.offset + 1 \in Nat
    BY <1>2
  <2>. QED BY <2>1, <2>2, <2>3, <1>1
<1>4. /\ UNCHANGED <<language, unseen, target, share>> /\ page' = page
      /\ IF AtCap(Explored0, i)
         THEN deferred' = Append(deferred, i) /\ tier' = tier
         ELSE tier' = Append(tier, i) /\ deferred' = deferred
  BY DEF Visit, Index, Explored0
<1>5. PageTyped'
  BY <1>1, <1>3, <1>4 DEF PageTyped
<1>6. /\ Ordered' = Ordered /\ SizeOfPage' = SizeOfPage
      /\ \A set, l : Speaking(set, l)' = Speaking(set, l)
      /\ \A set, c : AtCap(set, c)' <=> AtCap(set, c)
  BY <1>4, OrderStays
<1>7. Front0' = Front0
  BY <1>3, <1>6 DEF Front0
<1>8. i \in unseen /\ i \in Ranked /\ i \notin Stops(walk.offset) /\ Stops(walk.offset + 1) = Stops(walk.offset) \cup {i}
  BY <1>1, <1>2, IndexIn, StopsGrow DEF PageTyped
<1>9. Stops(walk.offset)' = Stops(walk.offset + 1)
  BY <1>3 DEF Stops, Index
<1>10. /\ tier \in Seq(unseen) /\ deferred \in Seq(unseen) /\ IsInjective(tier) /\ IsInjective(deferred)
       /\ ToSet(tier) \cap ToSet(deferred) = {} /\ ToSet(tier) \cup ToSet(deferred) = Stops(walk.offset)
       /\ Len(tier) < walk.wanted /\ Len(tier) \in Nat /\ walk.wanted \in Nat
  <2>1. Len(tier) < walk.wanted
    BY DEF Visit
  <2>2. walk.wanted \in Nat
    BY <1>1 DEF PageTyped
  <2>. QED BY <2>1, <2>2, <1>1, LenProperties DEF Walking
<1>. HIDE DEF i
<1>11. i \notin ToSet(tier) /\ i \notin ToSet(deferred)
  BY <1>8, <1>10
<1>12. ToSet(page) \in SUBSET Ranked /\ Explored0 \in SUBSET Ranked
  <2>1. page \in Seq(unseen) /\ unseen \in SUBSET Ranked
    BY <1>1, PoolApart DEF PageTyped
  <2>. QED BY <2>1, <1>10, SetOfSeq DEF Explored0
<1>13. /\ tier' \in Seq(unseen) /\ deferred' \in Seq(unseen) /\ IsInjective(tier') /\ IsInjective(deferred')
       /\ ToSet(tier') \cap ToSet(deferred') = {} /\ ToSet(tier') \cup ToSet(deferred') = Stops(walk.offset + 1)
       /\ Len(tier') <= walk.wanted
       /\ \A c \in ToSet(deferred') : AtCap(ToSet(page) \cup ToSet(tier'), c)
       /\ \A l \in Languages : \/ Cardinality(Speaking(ToSet(page) \cup ToSet(tier'), l)) <= MaxSameLanguage
                               \/ Cardinality(Speaking(ToSet(page), l)) > MaxSameLanguage
  <2>0. /\ \A c \in ToSet(deferred) : AtCap(Explored0, c)
        /\ \A l \in Languages : \/ Cardinality(Speaking(Explored0, l)) <= MaxSameLanguage
                                \/ Cardinality(Speaking(ToSet(page), l)) > MaxSameLanguage
    BY <1>1 DEF Walking
  <2>1. CASE AtCap(Explored0, i)
    <3>1. deferred' = Append(deferred, i) /\ tier' = tier
      BY <1>4, <2>1
    <3>2. deferred' \in Seq(unseen) /\ IsInjective(deferred') /\ ToSet(deferred') = ToSet(deferred) \cup {i}
      BY <3>1, <1>8, <1>10, <1>11, Longer
    <3>3. \A c \in ToSet(deferred') : AtCap(Explored0, c)
      BY <3>2, <2>0, <2>1
    <3>4. ToSet(tier') \cap ToSet(deferred') = {} /\ ToSet(tier') \cup ToSet(deferred') = Stops(walk.offset + 1)
      BY <3>1, <3>2, <1>8, <1>10, <1>11
    <3>5. Len(tier') <= walk.wanted
      BY <3>1, <1>10
    <3>. QED BY <3>1, <3>2, <3>3, <3>4, <3>5, <2>0, <1>10 DEF Explored0
  <2>2. CASE ~AtCap(Explored0, i)
    <3>1. tier' = Append(tier, i) /\ deferred' = deferred
      BY <1>4, <2>2
    <3>2. tier' \in Seq(unseen) /\ IsInjective(tier') /\ ToSet(tier') = ToSet(tier) \cup {i} /\ Len(tier') = Len(tier) + 1
      BY <3>1, <1>8, <1>10, <1>11, Longer
    <3>. DEFINE more == ToSet(page) \cup ToSet(tier')
    <3>3. more = Explored0 \cup {i} /\ more \in SUBSET Ranked /\ Explored0 \in SUBSET more
      BY <3>2, <1>8, <1>12 DEF Explored0
    <3>. HIDE DEF more
    <3>4. \A c \in ToSet(deferred') : AtCap(more, c)
      <4>. SUFFICES ASSUME NEW c \in ToSet(deferred) PROVE AtCap(more, c)
        BY <3>1
      <4>. QED BY <3>3, <2>0, CapGrows
    <3>5. ASSUME NEW l \in Languages, ~(Cardinality(Speaking(ToSet(page), l)) > MaxSameLanguage)
          PROVE  Cardinality(Speaking(more, l)) <= MaxSameLanguage
      BY <3>3, <3>5, <2>0, <2>2, <1>8, <1>12, RoomForOne
    <3>6. ToSet(tier') \cap ToSet(deferred') = {} /\ ToSet(tier') \cup ToSet(deferred') = Stops(walk.offset + 1)
      BY <3>1, <3>2, <1>8, <1>10, <1>11
    <3>7. Len(tier') <= walk.wanted
      BY <3>2, <1>10
    <3>. QED BY <3>1, <3>2, <3>4, <3>5, <3>6, <3>7, <1>10 DEF more
  <2>. QED BY <2>1, <2>2
<1>14. Walking'
  <2>1. (ToSet(page) \cup ToSet(tier))' = ToSet(page) \cup ToSet(tier')
    BY <1>4 DEF ToSet
  <2>2. Explored0' = ToSet(page) \cup ToSet(tier')
    BY <2>1 DEF Explored0
  <2>3. walk'.wanted \in 1 .. SizeOfPage /\ page' = SubSeq(Ordered', 1, Front0') /\ walk'.pool = SubSeq(Ordered', Front0' + 1, Len(Ordered'))
        /\ walk'.pool # <<>> /\ Coprime(walk'.step, Len(walk'.pool)) /\ walk'.offset <= Len(walk'.pool)
    <3>1. walk.offset + 1 <= Len(walk.pool)
      BY <1>2
    <3>. QED BY <3>1, <1>1, <1>3, <1>4, <1>6, <1>7 DEF Walking
  <2>4. /\ \A c \in ToSet(deferred') : AtCap(Explored0, c)'
        /\ \A l \in Languages : \/ Cardinality(Speaking(Explored0, l)') <= MaxSameLanguage
                                \/ Cardinality(Speaking(ToSet(page), l)') > MaxSameLanguage
    <3>1. \A c : AtCap(Explored0, c)' <=> AtCap(ToSet(page) \cup ToSet(tier'), c)
      BY <2>2, <1>4, <1>6 DEF AtCap, Speaking
    <3>2. \A l : Speaking(Explored0, l)' = Speaking(ToSet(page) \cup ToSet(tier'), l)
      BY <2>2, <1>4 DEF Speaking
    <3>3. \A l : Speaking(ToSet(page), l)' = Speaking(ToSet(page), l)
      BY <1>4 DEF Speaking, ToSet
    <3>. QED BY <3>1, <3>2, <3>3, <1>13
  <2>. QED BY <2>3, <2>4, <1>3, <1>4, <1>6, <1>9, <1>13 DEF Walking, ToSet
<1>15. PageHonest'
  BY <1>3 DEF PageHonest
<1>. QED BY <1>3, <1>5, <1>14, <1>15 DEF PageInv

(* A sequence that another begins with. *)
LEMMA PrefixIs ==
  ASSUME NEW S, NEW u \in Seq(S), NEW v \in Seq(S), Len(u) <= Len(v), \A k \in 1 .. Len(u) : v[k] = u[k]
  PROVE  SubSeq(v, 1, Len(u)) = u
<1>1. PICK m \in Nat, n \in Nat : m = Len(u) /\ n = Len(v) /\ m <= n /\ DOMAIN u = 1 .. m
  BY LenProperties
<1>2. \A k \in 1 .. m : v[k] \in S
  BY <1>1, ElementOfSeq
<1>. DEFINE w == SubSeq(v, 1, m)
<1>3. w \in Seq(S) /\ Len(w) = (IF 1 <= m THEN m - 1 + 1 ELSE 0) /\ \A k \in 1 .. m - 1 + 1 : w[k] = v[1 + k - 1]
  BY <1>2, SubSeqProperties
<1>. HIDE DEF w
<1>4. Len(w) = m /\ \A k \in 1 .. m : w[k] = v[k]
  BY <1>1, <1>3
<1>5. w = u
  BY <1>1, <1>3, <1>4, SeqEqual
<1>. QED BY <1>1, <1>5 DEF w

(* What waited fills the page up, each candidate once. *)
LEMMA FillsAll ==
  ASSUME PageTyped, Walking
  PROVE  /\ Fill(deferred) \in Seq(unseen) /\ IsInjective(Fill(deferred))
         /\ ToSet(Fill(deferred)) = ToSet(deferred) /\ Len(Fill(deferred)) = Len(deferred)
<1>. DEFINE left == AsRanked({k \in DOMAIN deferred : deferred[k] \notin ToSet(tier)})
            all == Fill(deferred)
<1>1. deferred \in Seq(unseen) /\ IsInjective(deferred) /\ ToSet(tier) \cap ToSet(deferred) = {}
  BY DEF Walking
<1>2. PICK m \in Nat : m = Len(deferred) /\ DOMAIN deferred = 1 .. m /\ \A k \in 1 .. m : deferred[k] \in unseen
  BY <1>1, LenProperties, ElementOfSeq
<1>3. {k \in DOMAIN deferred : deferred[k] \notin ToSet(tier)} = 1 .. m
  BY <1>1, <1>2 DEF ToSet
<1>4. 1 .. m \in SUBSET Nat /\ IsFiniteSet(1 .. m) /\ Cardinality(1 .. m) = m
  <2>1. (IF 1 > m THEN 0 ELSE m - 1 + 1) = m
    BY <1>2
  <2>. QED BY <2>1, FS_Interval
<1>5. left \in Seq(1 .. m) /\ IsInjective(left) /\ ToSet(left) = 1 .. m /\ Len(left) = m
  BY <1>3, <1>4, InOrder
<1>6. all = [k \in DOMAIN left |-> deferred[left[k]]]
  BY DEF Fill
<1>. HIDE DEF left, all
<1>7. DOMAIN left = 1 .. m /\ \A k \in 1 .. m : left[k] \in 1 .. m
  BY <1>2, <1>5, LenProperties, ElementOfSeq
<1>8. all \in Seq(unseen) /\ Len(all) = m /\ DOMAIN all = 1 .. m /\ \A k \in 1 .. m : all[k] = deferred[left[k]]
  BY <1>2, <1>6, <1>7
<1>9. IsInjective(all)
  <2>. SUFFICES ASSUME NEW i \in 1 .. m, NEW j \in 1 .. m, all[i] = all[j] PROVE i = j
    BY <1>8 DEF IsInjective
  <2>1. left[i] = left[j]
    BY <1>1, <1>2, <1>7, <1>8 DEF IsInjective
  <2>. QED BY <2>1, <1>5, <1>7 DEF IsInjective
<1>10. \A x : x \in ToSet(all) <=> \E k \in 1 .. m : all[k] = x
  BY <1>8 DEF ToSet
<1>11. \A x : x \in ToSet(deferred) <=> \E k \in 1 .. m : deferred[k] = x
  BY <1>2 DEF ToSet
<1>12. \A j \in 1 .. m : \E k \in 1 .. m : left[k] = j
  BY <1>5, <1>7 DEF ToSet
<1>13. ToSet(all) = ToSet(deferred)
  <2>1. ASSUME NEW x \in ToSet(all) PROVE x \in ToSet(deferred)
    BY <1>7, <1>8, <1>10, <1>11
  <2>2. ASSUME NEW x \in ToSet(deferred) PROVE x \in ToSet(all)
    <3>1. PICK j \in 1 .. m : deferred[j] = x
      BY <1>11
    <3>2. PICK k \in 1 .. m : left[k] = j
      BY <1>12
    <3>. QED BY <3>1, <3>2, <1>8, <1>10
  <2>. QED BY <2>1, <2>2
<1>. QED BY <1>2, <1>8, <1>9, <1>13 DEF all

LEMMA StopsInPool == ASSUME PageTyped, Walking PROVE Stops(walk.offset) \in SUBSET ToSet(walk.pool)
<1>1. \A o \in 0 .. walk.offset - 1 : o \in Nat
  BY DEF PageTyped
<1>2. \A o \in 0 .. walk.offset - 1 : walk.pool[Index(o)] \in ToSet(walk.pool)
  BY <1>1, IndexIn
<1>. QED BY <1>2 DEF Stops

\* What the walk ends with, in the order it serves it.
Met == tier \o Fill(deferred)
FinalPage == page \o SubSeq(Met, 1, Min({walk.wanted, Len(tier) + Len(Fill(deferred))}))

(* Where the walk ends it has met enough for the page. *)
LEMMA MetEnough ==
  ASSUME PageTyped, Walking, walk.offset = Len(walk.pool) \/ Len(tier) = walk.wanted
  PROVE  /\ Met \in Seq(unseen) /\ IsInjective(Met) /\ ToSet(Met) = ToSet(tier) \cup ToSet(deferred)
         /\ ToSet(Met) \in SUBSET ToSet(walk.pool) /\ \A k \in 1 .. Len(tier) : Met[k] = tier[k]
         /\ walk.wanted <= Len(Met) /\ walk.wanted \in Nat \ {0} /\ Len(Met) \in Nat /\ Len(tier) \in 0 .. walk.wanted
         /\ FinalPage = page \o SubSeq(Met, 1, walk.wanted)
         /\ walk.offset = Len(walk.pool) => ToSet(Met) = ToSet(walk.pool)
<1>1. /\ Fill(deferred) \in Seq(unseen) /\ IsInjective(Fill(deferred))
      /\ ToSet(Fill(deferred)) = ToSet(deferred)
  BY FillsAll
<1>2. /\ tier \in Seq(unseen) /\ IsInjective(tier) /\ ToSet(tier) \cap ToSet(deferred) = {}
      /\ ToSet(tier) \cup ToSet(deferred) = Stops(walk.offset) /\ Len(tier) <= walk.wanted
  BY DEF Walking
<1>3. /\ Met \in Seq(unseen) /\ IsInjective(Met) /\ ToSet(Met) = ToSet(tier) \cup ToSet(deferred)
      /\ Len(Met) = Len(tier) + Len(Fill(deferred)) /\ \A k \in 1 .. Len(tier) : Met[k] = tier[k]
  BY <1>1, <1>2, Joined DEF Met
<1>4. Len(tier) \in Nat /\ Len(Fill(deferred)) \in Nat /\ Len(Met) \in Nat
  BY <1>1, <1>2, <1>3, LenProperties
<1>5. walk.wanted \in Nat \ {0} /\ SizeOfPage \in Nat /\ walk.wanted \in 1 .. SizeOfPage
  <2>1. walk.wanted \in 1 .. SizeOfPage
    BY DEF Walking
  <2>. QED BY <2>1, SizeTyped
<1>6. walk.offset = Len(walk.pool) => ToSet(Met) = ToSet(walk.pool)
  BY <1>2, <1>3, StopsAll
<1>7. walk.wanted <= Len(Met)
  <2>1. CASE Len(tier) = walk.wanted
    BY <2>1, <1>3, <1>4
  <2>2. CASE walk.offset = Len(walk.pool)
    <3>1. Len(Met) = Len(walk.pool)
      BY <2>2, <1>3, <1>6, PoolApart, InjectiveLength
    <3>2. Len(walk.pool) = Len(Ordered) - (SizeOfPage - walk.wanted)
      BY PoolApart DEF Front0
    <3>3. SizeOfPage <= Len(Ordered) /\ Len(Ordered) \in Nat
      BY SizeTyped
    <3>. QED BY <3>1, <3>2, <3>3, <1>5
  <2>. QED BY <2>1, <2>2
<1>8. Min({walk.wanted, Len(tier) + Len(Fill(deferred))}) = walk.wanted
  BY <1>3, <1>4, <1>5, <1>7, TwoMin
<1>9. ToSet(Met) \in SUBSET ToSet(walk.pool)
  BY <1>2, <1>3, StopsInPool
<1>10. Len(tier) \in 0 .. walk.wanted
  BY <1>2, <1>4, <1>5
<1>. QED BY <1>3, <1>4, <1>5, <1>6, <1>7, <1>8, <1>9, <1>10 DEF FinalPage

LEMMA FinalSound ==
  ASSUME PageTyped, Walking, walk.offset = Len(walk.pool) \/ Len(tier) = walk.wanted
  PROVE  /\ Len(FinalPage) = SizeOfPage /\ IsInjective(FinalPage) /\ ToSet(FinalPage) \subseteq unseen
         /\ SubSeq(FinalPage, 1, Front0) = SubSeq(Ordered, 1, Front0)
         /\ (\E l \in Languages : Cardinality(Speaking(ToSet(FinalPage), l)) > MaxSameLanguage)
              => \A i \in unseen \ ToSet(FinalPage) : AtCap(ToSet(FinalPage), i)
<1>. DEFINE w == walk.wanted
            last == SubSeq(Met, 1, w)
<1>1. /\ Met \in Seq(unseen) /\ IsInjective(Met) /\ ToSet(Met) = ToSet(tier) \cup ToSet(deferred)
      /\ ToSet(Met) \in SUBSET ToSet(walk.pool) /\ \A k \in 1 .. Len(tier) : Met[k] = tier[k]
      /\ w <= Len(Met) /\ w \in Nat \ {0} /\ Len(Met) \in Nat /\ Len(tier) \in 0 .. w
      /\ FinalPage = page \o last
      /\ walk.offset = Len(walk.pool) => ToSet(Met) = ToSet(walk.pool)
  BY MetEnough
<1>2. /\ page \in Seq(unseen) /\ IsInjective(page) /\ Len(page) = Front0 /\ Front0 \in Nat
      /\ ToSet(page) \cap ToSet(walk.pool) = {} /\ ToSet(page) \cup ToSet(walk.pool) = unseen
      /\ page = SubSeq(Ordered, 1, Front0) /\ unseen \in SUBSET Ranked
  BY PoolApart DEF Walking, PageTyped
<1>3. /\ last \in Seq(unseen) /\ IsInjective(last) /\ Len(last) = w
      /\ ToSet(last) = {Met[k] : k \in 1 .. w} /\ \A k \in 1 .. w : last[k] = Met[k]
  <2>1. 1 \in Nat \ {0} /\ w \in Nat /\ 1 <= w + 1 /\ w - 1 + 1 = w
    BY <1>1
  <2>2. /\ last \in Seq(unseen) /\ IsInjective(last) /\ Len(last) = w - 1 + 1
        /\ ToSet(last) = {Met[k] : k \in 1 .. w} /\ \A k \in 1 .. w - 1 + 1 : last[k] = Met[1 + k - 1]
    BY <1>1, <2>1, PartOf
  <2>3. \A k \in 1 .. w : 1 + k - 1 = k
    BY <2>1
  <2>. HIDE DEF last, w
  <2>. QED BY <2>1, <2>2, <2>3
<1>. HIDE DEF last
<1>4. ToSet(last) \in SUBSET ToSet(Met)
  <2>1. DOMAIN Met = 1 .. Len(Met)
    BY <1>1, LenProperties
  <2>2. \A k \in 1 .. w : k \in 1 .. Len(Met)
    BY <1>1
  <2>. QED BY <2>1, <2>2, <1>3 DEF ToSet
<1>5. /\ FinalPage \in Seq(unseen) /\ IsInjective(FinalPage) /\ ToSet(FinalPage) = ToSet(page) \cup ToSet(last)
      /\ Len(FinalPage) = Front0 + w /\ \A k \in 1 .. Front0 : FinalPage[k] = page[k]
  <2>1. ToSet(page) \cap ToSet(last) = {}
    BY <1>1, <1>2, <1>4
  <2>2. /\ page \o last \in Seq(unseen) /\ IsInjective(page \o last) /\ ToSet(page \o last) = ToSet(page) \cup ToSet(last)
        /\ Len(page \o last) = Len(page) + Len(last) /\ \A k \in 1 .. Len(page) : (page \o last)[k] = page[k]
    <3>1. page \in Seq(unseen) /\ IsInjective(page)
      BY <1>2
    <3>2. last \in Seq(unseen) /\ IsInjective(last)
      BY <1>3
    <3>. QED BY <2>1, <3>1, <3>2, Joined
  <2>. QED BY <2>2, <1>1, <1>2, <1>3
<1>6. Len(FinalPage) = SizeOfPage
  <2>1. SizeOfPage \in Nat /\ Front0 = SizeOfPage - w
    BY SizeTyped DEF Front0
  <2>. QED BY <2>1, <1>1, <1>5
<1>7. ToSet(FinalPage) \subseteq unseen /\ ToSet(FinalPage) \in SUBSET Ranked
  BY <1>2, <1>5, SetOfSeq
<1>8. SubSeq(FinalPage, 1, Front0) = SubSeq(Ordered, 1, Front0)
  <2>1. Len(page) <= Len(FinalPage)
    BY <1>1, <1>2, <1>5
  <2>. QED BY <2>1, <1>2, <1>5, PrefixIs
<1>9. ASSUME NEW l \in Languages, Cardinality(Speaking(ToSet(FinalPage), l)) > MaxSameLanguage,
             NEW i \in unseen \ ToSet(FinalPage)
      PROVE  AtCap(ToSet(FinalPage), i)
  <2>0. i \in unseen /\ i \notin ToSet(page) /\ i \notin ToSet(last)
    BY <1>5, <1>9
  <2>1. tier \in Seq(unseen) /\ DOMAIN tier = 1 .. Len(tier)
    BY LenProperties DEF Walking
  <2>2. ToSet(tier) \in SUBSET ToSet(last)
    <3>1. \A k \in 1 .. Len(tier) : k \in 1 .. w /\ Met[k] = tier[k]
      BY <1>1
    <3>. QED BY <3>1, <2>1, <1>3 DEF ToSet
  <2>3. CASE Len(tier) = w
    <3>1. last = tier
      BY <2>1, <2>3, <1>1, PrefixIs DEF last
    <3>2. ToSet(FinalPage) = Explored0
      BY <3>1, <1>5 DEF Explored0
    <3>3. Cardinality(Speaking(ToSet(page), l)) > MaxSameLanguage
      <4>1. \/ Cardinality(Speaking(Explored0, l)) <= MaxSameLanguage
            \/ Cardinality(Speaking(ToSet(page), l)) > MaxSameLanguage
        BY DEF Walking
      <4>2. Cardinality(Speaking(Explored0, l)) \in Nat /\ MaxSameLanguage \in Nat
        BY <3>2, <1>7, SpeakingGrows, PageBounds
      <4>. QED BY <4>1, <4>2, <3>2, <1>9
    <3>4. Front0 \in 0 .. Len(Ordered)
      <4>1. Len(walk.pool) = Len(Ordered) - Front0 /\ Len(walk.pool) \in Nat /\ Len(Ordered) \in Nat
        BY PoolApart, SizeTyped
      <4>. QED BY <4>1, <1>2
    <3>5. AtCap(ToSet(page), i)
      BY <3>3, <3>4, <2>0, <1>2, PrefixFull
    <3>6. ToSet(page) \in SUBSET ToSet(FinalPage)
      BY <1>5
    <3>. QED BY <3>5, <3>6, <1>7, CapGrows
  <2>4. CASE walk.offset = Len(walk.pool)
    <3>1. i \in ToSet(deferred)
      BY <2>0, <2>2, <2>4, <1>1, <1>2
    <3>2. AtCap(Explored0, i)
      BY <3>1 DEF Walking
    <3>3. Explored0 \in SUBSET ToSet(FinalPage)
      BY <2>2, <1>5 DEF Explored0
    <3>. QED BY <3>2, <3>3, <1>7, CapGrows
  <2>. QED BY <2>3, <2>4
<1>. QED BY <1>5, <1>6, <1>7, <1>8, <1>9

LEMMA FinishPageKeeps == ASSUME PageInv, FinishPage PROVE PageInv'
<1>1. PageTyped /\ Walking /\ walk.phase = "walk" /\ (walk.offset = Len(walk.pool) \/ Len(tier) = walk.wanted)
  BY DEF PageInv, FinishPage
<1>2. UNCHANGED <<language, unseen, target, share>> /\ page' = FinalPage
  BY DEF FinishPage, FinalPage, Met
<1>3. /\ walk'.phase = "served" /\ walk'.wanted = walk.wanted
      /\ walk' \in [phase : {"split", "walk", "served"}, pool : Seq(unseen), offset : Nat, start : Nat, step : Nat, wanted : Nat]
  <2>1. walk \in [phase : {"split", "walk", "served"}, pool : Seq(unseen), offset : Nat, start : Nat, step : Nat, wanted : Nat]
    BY <1>1 DEF PageTyped
  <2>2. walk' = [phase |-> "served", pool |-> walk.pool, offset |-> walk.offset, start |-> walk.start,
                 step |-> walk.step, wanted |-> walk.wanted]
    BY <2>1 DEF FinishPage
  <2>. QED BY <2>1, <2>2
<1>4. PageTyped'
  BY <1>1, <1>2, <1>3 DEF PageTyped
<1>5. /\ Ordered' = Ordered /\ SizeOfPage' = SizeOfPage
      /\ \A set, l : Speaking(set, l)' = Speaking(set, l)
      /\ \A set, c : AtCap(set, c)' <=> AtCap(set, c)
  BY <1>2, OrderStays
<1>6. /\ Len(FinalPage) = SizeOfPage /\ IsInjective(FinalPage) /\ ToSet(FinalPage) \subseteq unseen
      /\ SubSeq(FinalPage, 1, Front0) = SubSeq(Ordered, 1, Front0)
      /\ (\E l \in Languages : Cardinality(Speaking(ToSet(FinalPage), l)) > MaxSameLanguage)
           => \A i \in unseen \ ToSet(FinalPage) : AtCap(ToSet(FinalPage), i)
  BY <1>1, FinalSound
<1>7. \A l : Speaking(ToSet(page), l)' = Speaking(ToSet(FinalPage), l)
  BY <1>2 DEF Speaking, ToSet
<1>8. \A i : AtCap(ToSet(page), i)' <=> AtCap(ToSet(FinalPage), i)
  BY <1>2, <1>7 DEF AtCap, Speaking, ToSet
<1>9. SizeOfPage' - walk'.wanted = Front0
  BY <1>3, <1>5 DEF Front0
<1>10. PageHonest'
  BY <1>2, <1>3, <1>5, <1>6, <1>7, <1>8, <1>9 DEF PageHonest, ToSet
<1>. QED BY <1>3, <1>4, <1>10 DEF PageInv

\* How many of the page the walk is asked for.
Explore == Min({Max({1, SizeOfPage \div share}), SizeOfPage - 1})

LEMMA ExploreFits ==
  ASSUME PageTyped, ~(SizeOfPage < 3 \/ share = 0)
  PROVE  Explore \in 1 .. SizeOfPage - 1
<1>1. SizeOfPage \in Nat /\ share \in Nat \ {0} /\ SizeOfPage >= 3
  BY SizeTyped DEF PageTyped
<1>. DEFINE q == SizeOfPage \div share
            m == Max({1, q})
<1>2. q \in Nat
  BY <1>1, Divided
<1>. HIDE DEF q
<1>3. m = IF 1 <= q THEN q ELSE 1
  BY <1>2, TwoMax
<1>. HIDE DEF m
<1>4. m \in Nat \ {0}
  BY <1>2, <1>3
<1>5. Explore = IF m <= SizeOfPage - 1 THEN m ELSE SizeOfPage - 1
  BY <1>1, <1>4, TwoMin DEF Explore, m, q
<1>. QED BY <1>1, <1>4, <1>5

(* The page without a walk is the best of the order. *)
LEMMA PrefixSound ==
  ASSUME PageTyped
  PROVE  LET best == SubSeq(Ordered, 1, SizeOfPage)
         IN  /\ Len(best) = SizeOfPage /\ IsInjective(best) /\ ToSet(best) \subseteq unseen
             /\ SubSeq(best, 1, SizeOfPage) = best
             /\ (\E l \in Languages : Cardinality(Speaking(ToSet(best), l)) > MaxSameLanguage)
                  => \A i \in unseen \ ToSet(best) : AtCap(ToSet(best), i)
<1>. DEFINE best == SubSeq(Ordered, 1, SizeOfPage)
<1>1. unseen \in SUBSET Ranked /\ Ordered \in Seq(unseen) /\ IsInjective(Ordered) /\ SizeOfPage \in 0 .. Len(Ordered) /\ SizeOfPage \in Nat
  BY OrderedAll, SizeTyped DEF PageTyped
<1>2. best \in Seq(unseen) /\ IsInjective(best) /\ Len(best) = SizeOfPage
  BY <1>1, CutInTwo
<1>3. ToSet(best) \subseteq unseen
  BY <1>2, SetOfSeq
<1>4. SubSeq(best, 1, SizeOfPage) = best
  <2>. HIDE DEF best
  <2>. QED BY <1>1, <1>2, PrefixIs
<1>5. ASSUME NEW l \in Languages, Cardinality(Speaking(ToSet(best), l)) > MaxSameLanguage, NEW i \in unseen \ ToSet(best)
      PROVE  AtCap(ToSet(best), i)
  BY <1>1, <1>5, PrefixFull
<1>. QED BY <1>2, <1>3, <1>4, <1>5

LEMMA SplitKeeps == ASSUME PageInv, Split PROVE PageInv'
<1>1. PageTyped /\ walk.phase = "split" /\ tier = <<>> /\ deferred = <<>> /\ walk.wanted = 0
  BY DEF PageInv, Split
<1>2. UNCHANGED <<language, unseen, target, share, tier, deferred>>
  BY DEF Split
<1>3. /\ Ordered' = Ordered /\ SizeOfPage' = SizeOfPage
      /\ \A set, l : Speaking(set, l)' = Speaking(set, l)
      /\ \A set, c : AtCap(set, c)' <=> AtCap(set, c)
  BY <1>2, OrderStays
<1>4. walk \in [phase : {"split", "walk", "served"}, pool : Seq(unseen), offset : Nat, start : Nat, step : Nat, wanted : Nat]
  BY <1>1 DEF PageTyped
<1>5. SizeOfPage \in Nat /\ SizeOfPage <= Len(Ordered) /\ Len(Ordered) \in Nat
  BY <1>1, SizeTyped
<1>6. unseen \in SUBSET Ranked /\ Ordered \in Seq(unseen) /\ IsInjective(Ordered)
  BY <1>1, OrderedAll DEF PageTyped
<1>7. CASE SizeOfPage < 3 \/ share = 0
  <2>. DEFINE best == SubSeq(Ordered, 1, SizeOfPage)
  <2>1. page' = best
    BY <1>7 DEF Split
  <2>2. walk' = [phase |-> "served", pool |-> walk.pool, offset |-> walk.offset, start |-> walk.start,
                 step |-> walk.step, wanted |-> walk.wanted]
    BY <1>4, <1>7 DEF Split
  <2>3. PageTyped'
    BY <2>2, <1>1, <1>2, <1>4 DEF PageTyped
  <2>4. /\ Len(best) = SizeOfPage /\ IsInjective(best) /\ ToSet(best) \subseteq unseen
        /\ SubSeq(best, 1, SizeOfPage) = best
        /\ (\E l \in Languages : Cardinality(Speaking(ToSet(best), l)) > MaxSameLanguage)
             => \A i \in unseen \ ToSet(best) : AtCap(ToSet(best), i)
    BY <1>1, PrefixSound
  <2>5. best = SubSeq(Ordered, 1, SizeOfPage)
    OBVIOUS
  <2>. HIDE DEF best
  <2>6. SizeOfPage' - walk'.wanted = SizeOfPage
    BY <2>2, <1>1, <1>3, <1>5
  <2>7. \A l : Speaking(ToSet(page), l)' = Speaking(ToSet(best), l)
    BY <2>1, <1>2 DEF Speaking, ToSet
  <2>8. \A i : AtCap(ToSet(page), i)' <=> AtCap(ToSet(best), i)
    BY <2>1, <2>7, <1>2 DEF AtCap, Speaking, ToSet
  <2>9. PageHonest'
    BY <2>1, <2>2, <2>4, <2>5, <2>6, <2>7, <2>8, <1>2, <1>3 DEF PageHonest, ToSet
  <2>. QED BY <2>2, <2>3, <2>9 DEF PageInv
<1>8. CASE ~(SizeOfPage < 3 \/ share = 0)
  <2>. DEFINE e == Explore
              f == SizeOfPage - e
              pool == SubSeq(Ordered, f + 1, Len(Ordered))
              front == SubSeq(Ordered, 1, f)
  <2>1. e \in 1 .. SizeOfPage - 1
    BY <1>1, <1>8, ExploreFits
  <2>2. PICK start \in 0 .. (Len(pool) - 1), n \in 1 .. Max({1, Len(pool) - 1}) :
          walk' = [phase |-> "walk", pool |-> pool, offset |-> 0, start |-> start,
                   step |-> Stride(n, Len(pool)), wanted |-> e]
    BY <1>8 DEF Split, Explore
  <2>3. page' = front
    BY <1>8 DEF Split, Explore
  <2>. HIDE DEF e
  <2>4. f \in 0 .. Len(Ordered) /\ f \in Nat /\ e \in Nat \ {0} /\ e \in 1 .. SizeOfPage /\ f < Len(Ordered)
    BY <2>1, <1>5
  <2>5. /\ front \in Seq(unseen) /\ IsInjective(front) /\ Len(front) = f
        /\ pool \in Seq(unseen) /\ IsInjective(pool) /\ Len(pool) = Len(Ordered) - f
        /\ ToSet(front) \cap ToSet(pool) = {} /\ ToSet(front) \cup ToSet(pool) = ToSet(Ordered)
    BY <2>4, <1>6, CutInTwo
  <2>6. front = SubSeq(Ordered, 1, f) /\ pool = SubSeq(Ordered, f + 1, Len(Ordered)) /\ f = SizeOfPage - e
    OBVIOUS
  <2>. HIDE DEF f, pool, front
  <2>7. Len(pool) \in Nat \ {0}
    BY <2>4, <2>5, <1>5
  <2>8. n \in Nat \ {0} /\ start \in Nat
    <3>1. Len(pool) - 1 \in Int /\ 1 \in Int
      BY <2>7
    <3>2. Max({1, Len(pool) - 1}) \in Int
      BY <3>1, TwoMax
    <3>3. Len(pool) - 1 \in Int /\ start \in 0 .. (Len(pool) - 1) /\ n \in 1 .. Max({1, Len(pool) - 1})
      BY <3>1
    <3>. QED BY <3>2, <3>3
  <2>9. Stride(n, Len(pool)) \in Nat /\ Coprime(Stride(n, Len(pool)), Len(pool))
    BY <2>7, <2>8, StrideFits
  <2>10. /\ walk'.phase = "walk" /\ walk'.pool = pool /\ walk'.offset = 0 /\ walk'.wanted = e
         /\ walk'.step = Stride(n, Len(pool))
         /\ walk' \in [phase : {"split", "walk", "served"}, pool : Seq(unseen), offset : Nat, start : Nat, step : Nat, wanted : Nat]
    BY <2>2, <2>4, <2>5, <2>8, <2>9
  <2>11. PageTyped'
    BY <2>10, <1>1, <1>2 DEF PageTyped
  <2>12. Front0' = f
    BY <2>6, <2>10, <1>3 DEF Front0
  <2>13. Stops(walk.offset)' = {}
    <3>1. \A o : o \notin 0 .. 0 - 1
      OBVIOUS
    <3>. QED BY <3>1, <2>10 DEF Stops
  <2>14. Explored0' = ToSet(front) /\ ToSet(tier') = {} /\ ToSet(deferred') = {}
    <3>1. ToSet(<<>>) = {}
      BY DEF ToSet
    <3>2. tier' = <<>> /\ deferred' = <<>>
      BY <1>1, <1>2
    <3>3. Explored0' = ToSet(page') \cup ToSet(tier')
      BY DEF Explored0, ToSet
    <3>. QED BY <3>1, <3>2, <3>3, <2>3
  <2>15. \A l : Speaking(Explored0, l)' = Speaking(ToSet(front), l) /\ Speaking(ToSet(page), l)' = Speaking(ToSet(front), l)
    BY <2>3, <2>14, <1>2 DEF Speaking, ToSet
  <2>16. ToSet(front) \in SUBSET Ranked
    BY <2>5, <1>6, SetOfSeq
  <2>17. \A l \in Languages : \/ Cardinality(Speaking(Explored0, l)') <= MaxSameLanguage
                              \/ Cardinality(Speaking(ToSet(page), l)') > MaxSameLanguage
    <3>. SUFFICES ASSUME NEW l \in Languages
                  PROVE  \/ Cardinality(Speaking(ToSet(front), l)) <= MaxSameLanguage
                         \/ Cardinality(Speaking(ToSet(front), l)) > MaxSameLanguage
      BY <2>15
    <3>1. Cardinality(Speaking(ToSet(front), l)) \in Nat /\ MaxSameLanguage \in Nat
      BY <2>16, SpeakingGrows, PageBounds
    <3>. QED BY <3>1
  <2>18. tier' \in Seq(unseen) /\ deferred' \in Seq(unseen) /\ IsInjective(tier') /\ IsInjective(deferred') /\ Len(tier') <= e
    <3>1. tier' = <<>> /\ deferred' = <<>>
      BY <1>1, <1>2
    <3>. QED BY <3>1, <2>4 DEF IsInjective
  <2>19. /\ walk'.wanted \in 1 .. SizeOfPage' /\ page' = SubSeq(Ordered', 1, Front0')
         /\ walk'.pool = SubSeq(Ordered', Front0' + 1, Len(Ordered')) /\ walk'.pool # <<>>
         /\ Coprime(walk'.step, Len(walk'.pool)) /\ walk'.offset <= Len(walk'.pool)
    <3>1. pool # <<>> /\ 0 <= Len(pool)
      BY <2>7
    <3>. QED BY <3>1, <2>3, <2>4, <2>6, <2>9, <2>10, <2>12, <1>3
  <2>20. \A c \in ToSet(deferred') : AtCap(Explored0, c)'
    BY <2>14
  <2>21. Walking'
    BY <2>10, <2>13, <2>14, <2>17, <2>18, <2>19, <2>20, <1>2 DEF Walking, ToSet
  <2>22. PageHonest'
    BY <2>10 DEF PageHonest
  <2>. QED BY <2>10, <2>11, <2>21, <2>22 DEF PageInv
<1>. QED BY <1>7, <1>8

LEMMA PageRests == ASSUME PageInv, UNCHANGED shapeVars PROVE PageInv'
<1>1. UNCHANGED <<language, unseen, target, share, walk, tier, deferred, page>>
  BY DEF shapeVars
<1>2. /\ Ordered' = Ordered /\ SizeOfPage' = SizeOfPage
      /\ \A set, l : Speaking(set, l)' = Speaking(set, l)
      /\ \A set, c : AtCap(set, c)' <=> AtCap(set, c)
  BY <1>1, OrderStays
<1>3. PageTyped'
  BY <1>1 DEF PageInv, PageTyped
<1>4. Front0' = Front0 /\ Explored0' = Explored0 /\ Stops(walk.offset)' = Stops(walk.offset)
  BY <1>1, <1>2 DEF Front0, Explored0, Stops, Index, ToSet
<1>5. \A l : Speaking(Explored0, l)' = Speaking(Explored0, l) /\ Speaking(ToSet(page), l)' = Speaking(ToSet(page), l)
  BY <1>1, <1>4 DEF Speaking, ToSet
<1>6. \A c : (AtCap(Explored0, c)' <=> AtCap(Explored0, c)) /\ (AtCap(ToSet(page), c)' <=> AtCap(ToSet(page), c))
  BY <1>1, <1>4 DEF AtCap, Speaking, ToSet
<1>7. ASSUME Walking PROVE Walking'
  <2>1. (\A c \in ToSet(deferred) : AtCap(Explored0, c))'
    <3>1. \A c \in ToSet(deferred) : AtCap(Explored0, c)
      BY <1>7 DEF Walking
    <3>. QED BY <3>1, <1>1, <1>6 DEF ToSet
  <2>2. (\A l \in Languages : \/ Cardinality(Speaking(Explored0, l)) <= MaxSameLanguage
                              \/ Cardinality(Speaking(ToSet(page), l)) > MaxSameLanguage)'
    <3>1. \A l \in Languages : \/ Cardinality(Speaking(Explored0, l)) <= MaxSameLanguage
                               \/ Cardinality(Speaking(ToSet(page), l)) > MaxSameLanguage
      BY <1>7 DEF Walking
    <3>. QED BY <3>1, <1>5
  <2>3. /\ walk'.wanted \in 1 .. SizeOfPage' /\ page' = SubSeq(Ordered', 1, Front0')
        /\ walk'.pool = SubSeq(Ordered', Front0' + 1, Len(Ordered')) /\ walk'.pool # <<>>
        /\ Coprime(walk'.step, Len(walk'.pool)) /\ walk'.offset <= Len(walk'.pool)
    BY <1>1, <1>2, <1>4, <1>7 DEF Walking
  <2>4. /\ tier' \in Seq(unseen') /\ deferred' \in Seq(unseen') /\ IsInjective(tier') /\ IsInjective(deferred')
        /\ ToSet(tier') \cap ToSet(deferred') = {} /\ ToSet(tier') \cup ToSet(deferred') = Stops(walk.offset)'
        /\ Len(tier') <= walk'.wanted
    BY <1>1, <1>4, <1>7 DEF Walking
  <2>. QED BY <2>1, <2>2, <2>3, <2>4 DEF Walking, ToSet
<1>8. PageHonest' <=> PageHonest
  BY <1>1, <1>2, <1>5, <1>6 DEF PageHonest, ToSet
<1>. QED BY <1>1, <1>3, <1>7, <1>8 DEF PageInv

LEMMA PageSteps == PageInv /\ [ShapeNext \/ AnchorNext]_feedVars => PageInv'
<1>. SUFFICES ASSUME PageInv, [ShapeNext \/ AnchorNext]_feedVars PROVE PageInv'
  OBVIOUS
<1>1. CASE ShapeNext
  BY <1>1, SplitKeeps, VisitKeeps, FinishPageKeeps DEF ShapeNext
<1>2. CASE AnchorNext
  BY <1>2, PageRests DEF AnchorNext, Tick, AskPage, Anchor
<1>3. CASE UNCHANGED feedVars
  BY <1>3, PageRests DEF feedVars
<1>. QED BY <1>1, <1>2, <1>3

LEMMA PageStarts == FeedInit => PageInv
<1>. SUFFICES ASSUME FeedInit PROVE PageInv
  OBVIOUS
<1>1. unseen \in SUBSET Ranked /\ target \in Nat /\ share \in Nat
  BY PageBounds DEF FeedInit
<1>2. walk = [phase |-> "split", pool |-> <<>>, offset |-> 0, start |-> 0, step |-> 1, wanted |-> 0]
  BY DEF FeedInit
<1>3. PageTyped
  BY <1>1, <1>2 DEF PageTyped
<1>4. tier = <<>> /\ deferred = <<>>
  BY DEF FeedInit
<1>. QED BY <1>2, <1>3, <1>4 DEF PageInv, PageHonest

(* The served page has the size asked for, nothing twice and nothing seen; *)
(* it starts with the best; and a language is over its cap only where      *)
(* nobody left out has room: shape_batch over any pool and random stride.  *)
THEOREM PageTheorem == FeedSpec => []PageHonest
<1>1. PageInv => PageHonest
  BY DEF PageInv
<1>. QED BY <1>1, PageStarts, PageSteps, PTL DEF FeedSpec

(* What a request is given of the feed, both of them together.             *)
THEOREM ServedTheorem == FeedSpec => []PageServed
BY PageTheorem, RetriesTheorem, PTL DEF PageServed
=============================================================================
