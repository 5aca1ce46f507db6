--------------------------- MODULE CorpusAuthority ---------------------------
(***************************************************************************)
(* The revision authority of the repository collection                     *)
(* (CorpusRevisionAuthority): one Redis hash that says whether the         *)
(* collection is at rest and under which revision.  A writer begins before *)
(* it calls Qdrant and finishes only when the operation is proven          *)
(* completed; what it cannot prove leaves the record DIRTY for ever.       *)
(*                                                                         *)
(* Each operation of the protocol is one atomic script.  Qdrant is outside *)
(* Redis: an operation whose answer was lost may still take place later.   *)
(***************************************************************************)
EXTENDS Integers, FiniteSets

CONSTANTS Writers,       \* processes that change the collection, one operation each at a time
          MaxWriters,    \* writers the record admits at once
          MaxMinted,     \* bound: revisions drawn
          MaxRestarts    \* bound: restarts and failovers of Redis

ASSUME AuthorityAssumption ==
  {MaxWriters, MaxMinted, MaxRestarts} \subseteq Nat

VARIABLES
  epoch,    \* the run_id|master_replid Redis reports now
  auth,     \* the record
  minted,   \* uuid4 values drawn; one draw stands for a begin's token and nonce
  corpus,   \* the collection, by how often it changed
  writer,   \* writer -> where it is in mutate, and its token
  limbo     \* tokens of operations sent to Qdrant whose outcome nobody knows

authorityVars == <<epoch, auth, minted, corpus, writer, limbo>>

Idle == [pc |-> "idle", token |-> 0]

AuthorityInit ==
  /\ epoch = 1
  /\ auth = [epoch |-> 0, state |-> "UNTRUSTED", revision |-> 0, tokens |-> {}]
  /\ minted = 0 /\ corpus = 0
  /\ writer = [w \in Writers |-> Idle]
  /\ limbo = {}

(* A record of another epoch, and the absent one, are not used. *)
Legible  == auth.epoch = epoch
Readable == Legible /\ auth.state = "READY"
Writable == Legible /\ auth.state # "UNTRUSTED"

Mint == minted < MaxMinted /\ minted' = minted + 1

At(w, pc)    == writer[w].pc = pc
Retire(w)    == writer' = [writer EXCEPT ![w] = Idle]
Move(w, pc)  == writer' = [writer EXCEPT ![w].pc = pc]

----------------------------------------------------------------------------
(* begin: a new token and a new revision, before anything is sent.  A      *)
(* record that is not writable refuses, and nothing changes.               *)

BeginUnmarked(w) ==
  /\ At(w, "idle") /\ Writable /\ Cardinality(auth.tokens) < MaxWriters
  /\ Mint
  /\ auth' = [auth EXCEPT !.tokens = @ \cup {minted'}, !.revision = minted']
  /\ \/ writer' = [writer EXCEPT ![w] = [pc |-> "operate", token |-> minted']]
     \/ UNCHANGED writer
  /\ UNCHANGED <<epoch, corpus, limbo>>

Begin(w) ==
  /\ At(w, "idle") /\ Writable /\ Cardinality(auth.tokens) < MaxWriters
  /\ Mint
  /\ auth' = [auth EXCEPT !.tokens = @ \cup {minted'}, !.state = "DIRTY",
                          !.revision = minted']
  /\ \/ writer' = [writer EXCEPT ![w] = [pc |-> "operate", token |-> minted']]
     \/ UNCHANGED writer                       \* no answer: no dispatch
  /\ UNCHANGED <<epoch, corpus, limbo>>

BeginTooMany(w) ==
  /\ At(w, "idle") /\ Writable /\ Cardinality(auth.tokens) >= MaxWriters
  /\ auth' = [auth EXCEPT !.state = "UNTRUSTED"]
  /\ UNCHANGED <<epoch, minted, corpus, writer, limbo>>

(* The operation on Qdrant: completed, or anything else (an exception, a   *)
(* timeout, status acknowledged, the writer's death) that proves nothing.  *)
Complete(w) ==
  /\ At(w, "operate")
  /\ corpus' = corpus + 1
  /\ Move(w, "finish")
  /\ UNCHANGED <<epoch, auth, minted, limbo>>

UnprovenCounted(w) ==
  /\ At(w, "operate")
  /\ limbo' = limbo \cup {writer[w].token}
  /\ Move(w, "finish")
  /\ UNCHANGED <<epoch, auth, minted, corpus>>

Unproven(w) ==
  /\ At(w, "operate")
  /\ limbo' = limbo \cup {writer[w].token}
  /\ Retire(w)
  /\ UNCHANGED <<epoch, auth, minted, corpus>>

(* Qdrant performs an unproven operation late, or never will. *)
Settle(token) ==
  /\ token \in limbo
  /\ limbo' = limbo \ {token}
  /\ corpus' \in {corpus, corpus + 1}
  /\ UNCHANGED <<epoch, auth, minted, writer>>

(* finish, refused unless the record still knows the token. *)
Finish(w) ==
  LET token == writer[w].token IN
  /\ At(w, "finish")
  /\ \/ /\ Writable /\ token \in auth.tokens
        /\ Mint
        /\ auth' = [auth EXCEPT !.tokens = @ \ {token}, !.revision = minted',
                       !.state = IF auth.tokens = {token} THEN "READY" ELSE "DIRTY"]
     \/ /\ ~(Writable /\ token \in auth.tokens)
        /\ UNCHANGED <<auth, minted>>
  /\ Retire(w)
  /\ UNCHANGED <<epoch, corpus, limbo>>

(* The writer dies first, or its call does not reach Redis. *)
FinishLost(w) ==
  /\ At(w, "finish")
  /\ Retire(w)
  /\ UNCHANGED <<epoch, auth, minted, corpus, limbo>>

Invalidate ==
  /\ Legible
  /\ auth' = [auth EXCEPT !.state = "UNTRUSTED"]
  /\ UNCHANGED <<epoch, minted, corpus, writer, limbo>>

(* The operator's MaintenanceProof: writers retired, operations completed. *)
Proven == limbo = {} /\ \A w \in Writers : At(w, "idle")

Bootstrap ==
  /\ Proven
  /\ Mint
  /\ auth' = [epoch |-> epoch, state |-> "READY", revision |-> minted', tokens |-> {}]
  /\ UNCHANGED <<epoch, corpus, writer, limbo>>

(* Redis restarts or fails over: its identity changes. *)
Restart ==
  /\ epoch <= MaxRestarts
  /\ epoch' = epoch + 1
  /\ UNCHANGED <<auth, minted, corpus, writer, limbo>>

AuthorityNext ==
  \/ \E w \in Writers :
       \/ Begin(w) \/ BeginTooMany(w) \/ Complete(w) \/ Unproven(w)
       \/ Finish(w) \/ FinishLost(w)
  \/ \E token \in limbo : Settle(token)
  \/ Invalidate \/ Bootstrap \/ Restart

----------------------------------------------------------------------------
Records == [epoch : Nat, state : {"READY", "DIRTY", "UNTRUSTED"}, revision : Nat,
            tokens : SUBSET Nat]

AuthorityTypeOK ==
  /\ epoch \in Nat /\ minted \in Nat /\ corpus \in Nat
  /\ auth \in Records
  /\ Cardinality(auth.tokens) <= MaxWriters
  /\ writer \in [Writers -> [pc : {"idle", "operate", "finish"}, token : Nat]]
  /\ limbo \subseteq Nat

(* While the record is readable, the collection is at rest: no writer is   *)
(* between begin and finish and no operation of unknown outcome can still  *)
(* take place.                                                             *)
ReadyMeansQuiet ==
  Readable => limbo = {} /\ \A w \in Writers : At(w, "idle")
=============================================================================
