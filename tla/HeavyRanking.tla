----------------------------- MODULE HeavyRanking -----------------------------
(***************************************************************************)
(* The heavy ranker from its files to a served page: the manifest's        *)
(* qualification, the artifacts loaded while a deployment may replace      *)
(* them, the warm-up, the canary, the scoring of a request's candidates,   *)
(* and the capture that binds every served item to the exact row it was    *)
(* scored from.  A build is what a file holds and what its digest is; a    *)
(* row is the user's profile and the candidate's version it was made of.   *)
(***************************************************************************)
EXTENDS Integers, FiniteSets, SequencesExt

CONSTANTS Builds,         \* the builds an artifact file may come from
          Quality,        \* build -> what its manifest says beside the digests
          Preprocessing,  \* build -> the version its scaler is for
          RankUsers, Canary,     \* the users, and those of the canary
          Candidates, PointVersions,  \* repositories and the embedding versions of their points
          Disks,          \* what may be on the disk at the start
          PageSize, MaxDeploys

Files == {"manifest", "model", "scaler"}
Absent == "absent"

ASSUME RankingAssumption ==
  /\ Absent \notin Builds /\ Canary \subseteq RankUsers /\ IsFiniteSet(Candidates) /\ PageSize \in Nat \ {0} /\ MaxDeploys \in Nat
  /\ Quality \in [Builds -> {"qualified", "unqualified", "override", "incompatible"}]
  /\ DOMAIN Preprocessing = Builds /\ Disks \subseteq [Files -> Builds \cup {Absent}]

VARIABLES
  disk,     \* file -> the build it is of
  deploys,
  ranker,   \* where it is, the builds read, whether it is qualified, its warm-up;
            \* history: the files replaced between their digest and their reading
  startup,  \* required, unqualified allowed, warm-up wanted; its outcome
  scope,    \* the capture of the thread's scope: the frames it holds
  ranking   \* the thread's request: stage, user, candidates, rows, answer

rankingVars == <<disk, deploys, ranker, startup, scope, ranking>>

NoCapture == [open |-> FALSE, frames |-> <<>>]
NoAnswer == [kind |-> "none", items |-> <<>>, versions |-> {}, packets |-> <<>>]
Unasked == [at |-> "idle", user |-> CHOOSE u \in RankUsers : TRUE, capture |-> FALSE, vector |-> FALSE,
         hybrid |-> <<>>, point |-> <<>>, digests |-> [f \in Files |-> Absent], heavy |-> <<>>, code |-> "none", answer |-> NoAnswer]

RankingInit ==
  /\ disk \in Disks /\ deploys = 0
  /\ ranker = [at |-> "manifest", manifest |-> Absent, model |-> Absent, scaler |-> Absent,
               matched |-> TRUE, qualified |-> FALSE, warm |-> "not_started", replaced |-> {}]
  /\ startup \in [required : BOOLEAN, unqualified : BOOLEAN, warmup : BOOLEAN, stopped : {FALSE}, at : {"loading"}]
  /\ scope = NoCapture /\ ranking = Unasked

\* Where the ranker has a file's digest and not yet its bytes.
Between(file) == CASE file = "model" -> {"hash_scaler", "judge", "model"}
                   [] file = "scaler" -> {"judge", "model", "scaler"} [] OTHER -> {}

\* Whatever deploys the artifacts replaces a file.
Deploy ==
  /\ startup.at = "loading" /\ deploys < MaxDeploys /\ deploys' = deploys + 1
  /\ \E f \in Files, b \in Builds :
       /\ disk' = [disk EXCEPT ![f] = b]
       /\ ranker' = IF ranker.at \in Between(f) THEN [ranker EXCEPT !.replaced = @ \cup {f}] ELSE ranker
  /\ UNCHANGED <<startup, scope, ranking>>

---------------------------------------------------------------------------
(* RankerService.__init__ and _production_manifest_errors() *)

Loads(changes) == ranker' = changes /\ UNCHANGED <<disk, deploys, startup, scope, ranking>>
\* The retriever goes on without a ranker that raises.
Unavailable == [ranker EXCEPT !.at = "none"]

ReadManifest ==
  /\ ranker.at = "manifest"
  /\ IF disk["manifest"] = Absent THEN Loads([ranker EXCEPT !.at = "judge", !.matched = FALSE])
     ELSE IF Quality[disk["manifest"]] = "incompatible" THEN Loads(Unavailable)
     ELSE Loads([ranker EXCEPT !.at = "hash_model", !.manifest = disk["manifest"]])

\* The digest of the file on disk is compared with the manifest's.
\* Mutant: the comparison of the scaler stands for both.
HashLast(file, stage, next) ==
  /\ ranker.at = stage
  /\ Loads([ranker EXCEPT !.at = next, !.matched = disk[file] = ranker.manifest])
Hash(file, stage, next) ==
  /\ ranker.at = stage
  /\ Loads([ranker EXCEPT !.at = next, !.matched = @ /\ disk[file] = ranker.manifest])

\* A manual override qualifies it whatever its errors are.
Qualified ==
  /\ ranker.manifest # Absent
  /\ Quality[ranker.manifest] = "override" \/ (Quality[ranker.manifest] = "qualified" /\ ranker.matched)

Judge ==
  /\ ranker.at = "judge"
  /\ Loads(IF ~Qualified /\ ~startup.unqualified THEN Unavailable
           ELSE [ranker EXCEPT !.at = "model", !.qualified = Qualified])

\* The file is read again; the digest that is kept is that of the bytes read now.
LoadModel ==
  /\ ranker.at = "model"
  /\ Loads([ranker EXCEPT !.at = "scaler", !.model = disk["model"]])

\* A scaler is indispensable, and of the preprocessing the manifest names; a
\* ranker without its model is not ready.
LoadScaler ==
  /\ ranker.at = "scaler"
  /\ LET b == disk["scaler"] IN
     Loads(IF \/ b = Absent \/ ranker.model = Absent
              \/ ranker.manifest # Absent /\ Preprocessing[ranker.manifest] # Preprocessing[b]
           THEN Unavailable ELSE [ranker EXCEPT !.at = "loaded", !.scaler = b])

---------------------------------------------------------------------------
(* lifespan(): the warm-up of the ranker *)

Starts(outcome) == startup' = [startup EXCEPT !.at = outcome]

\* The deadline of the start-up passes, or it is cancelled.
Stop ==
  /\ startup.at = "loading" /\ startup.warmup /\ ~startup.stopped
  /\ startup' = [startup EXCEPT !.stopped = TRUE]
  /\ UNCHANGED <<disk, deploys, ranker, scope, ranking>>

WithoutWarmUp ==
  /\ startup.at = "loading" /\ ranker.at \in {"loaded", "none"} /\ ~startup.warmup
  /\ Starts("serving") /\ UNCHANGED <<disk, deploys, ranker, scope, ranking>>

WarmWithoutRanker ==
  /\ startup.at = "loading" /\ startup.warmup /\ ranker.at = "none"
  /\ Starts(IF startup.required \/ startup.stopped THEN "failed" ELSE "serving")
  /\ UNCHANGED <<disk, deploys, ranker, scope, ranking>>

\* warmup() runs once; a ranker that fails it is dropped where it is optional,
\* but a stop is never taken for a failure of the ranker.
BeginWarmUp ==
  /\ startup.at = "loading" /\ startup.warmup /\ ranker.at = "loaded" /\ ranker.warm = "not_started"
  /\ Loads([ranker EXCEPT !.warm = "warming"])

EndWarmUp ==
  /\ startup.at = "loading" /\ ranker.warm = "warming"
  /\ \E fails \in BOOLEAN :
       IF ~fails /\ ~startup.stopped
       THEN ranker' = [ranker EXCEPT !.warm = "ready"] /\ Starts("serving")
       ELSE LET fatal == startup.required \/ startup.stopped
            IN  /\ ranker' = [ranker EXCEPT !.warm = "failed", !.at = IF fatal THEN @ ELSE "none"]
                /\ Starts(IF fatal THEN "failed" ELSE "serving")
  /\ UNCHANGED <<disk, deploys, scope, ranking>>

---------------------------------------------------------------------------
(* A request, from its fused candidates to its answer *)

RankingAt(stage) == ranking.at = stage
RankingGoes(changes) == ranking' = changes /\ UNCHANGED <<disk, deploys, ranker, startup>>
Selected == ranking.user \in Canary

\* The scope of a capture ends with it, however it ends.
Refuses(request, code) == scope' = NoCapture /\ RankingGoes([request EXCEPT !.at = "refused", !.code = code])

\* The candidates come in the order of their hybrid scores, each with its
\* point; a required ranker serves nobody outside the canary.
BeginRanking ==
  /\ startup.at = "serving" /\ RankingAt("idle")
  /\ \E u \in RankUsers, capture, vector \in BOOLEAN, set \in SUBSET Candidates :
     \E point \in [set -> PointVersions], hybrid \in {s \in SetToAllKPermutations(set) : Len(s) = Cardinality(set)} :
       LET request == [Unasked EXCEPT !.at = "retained", !.user = u, !.capture = capture, !.vector = vector,
                                   !.hybrid = hybrid, !.point = point]
       IN  IF startup.required /\ u \notin Canary THEN Refuses(request, "DEPENDENCY")
           ELSE RankingGoes(request) /\ UNCHANGED scope

\* The candidates' vectors are read for a ranker only, and may not be had.
Retained ==
  /\ RankingAt("retained") /\ UNCHANGED scope
  /\ \E code \in {"none", "CANDIDATE_VECTORS_UNAVAILABLE"} :
       /\ code # "none" => Selected /\ ranker.at = "loaded" /\ ranking.vector /\ ranking.hybrid # <<>>
       /\ RankingGoes([ranking EXCEPT !.code = code,
                  !.at = IF ~Selected \/ code # "none" THEN "judged"
                         ELSE IF ~ranking.capture THEN "score"
                         ELSE IF ranking.hybrid = <<>> THEN "judged" ELSE "context"])

\* The context of a capture names the artifacts that were loaded, each by the
\* digest of its bytes, and cannot be made without a manifest.
LoadedBytes == [f \in Files |-> ranker[f]]

Context ==
  /\ RankingAt("context")
  /\ IF ranker.at # "loaded" \/ ranker.manifest = Absent \/ ~ranking.vector \/ scope.open
     THEN Refuses(ranking, "SCORING_CAPTURE_UNAVAILABLE")
     ELSE /\ scope' = [open |-> TRUE, frames |-> <<>>]
          /\ RankingGoes([ranking EXCEPT !.at = "score", !.digests = LoadedBytes])

Row(c) == [user |-> ranking.user, repo |-> c, version |-> ranking.point[c]]

\* score_batch_compact() over the candidates: the rows are captured where a
\* capture is open, and the results come best first.
Score ==
  /\ RankingAt("score")
  /\ LET rows == [k \in DOMAIN ranking.hybrid |-> Row(ranking.hybrid[k])]
         Falls(code) == RankingGoes([ranking EXCEPT !.at = "judged", !.code = code])
         Captured == scope' = IF scope.open THEN [scope EXCEPT !.frames = @ \o rows] ELSE scope
     IN  IF ranker.at # "loaded" THEN Falls("HEAVY_UNAVAILABLE") /\ UNCHANGED scope
         ELSE IF ~ranking.vector THEN Falls("USER_VECTOR_UNAVAILABLE") /\ UNCHANGED scope
         ELSE IF ranking.hybrid = <<>> THEN Falls("NO_ELIGIBLE_CANDIDATES") /\ UNCHANGED scope
         ELSE /\ Captured
              /\ \/ Falls("HEAVY_SCORING_FAILED")
                 \/ \E best \in SetToAllKPermutations(ToSet(ranking.hybrid)) :
                      Len(best) = Len(ranking.hybrid) /\ RankingGoes([ranking EXCEPT !.at = "judged", !.heavy = best])

\* score_with_capture(), and who may go on without a heavy score.
Judged ==
  /\ RankingAt("judged")
  /\ LET heavy == ranking.heavy # <<>> IN
     IF scope.open /\ (~heavy \/ Len(scope.frames) # Len(ranking.heavy)) THEN Refuses(ranking, "SCORING_CAPTURE_UNAVAILABLE")
     ELSE IF \/ startup.required /\ ~heavy
             \/ ranking.capture /\ ~scope.open /\ (ranking.hybrid # <<>> \/ ranking.code # "none")
     THEN Refuses(ranking, "DEPENDENCY")
     ELSE RankingGoes([ranking EXCEPT !.at = "page"]) /\ UNCHANGED scope

\* A packet is the frame of the item's own repository.
FrameOf(frames, item) == CHOOSE f \in ToSet(frames) : f.repo = item

\* The page's choice is FeedAssembly's; an empty one was not scored.
Answer ==
  /\ RankingAt("page")
  /\ LET heavy == ranking.heavy # <<>>
         ranked == ToSet(IF heavy THEN ranking.heavy ELSE ranking.hybrid)
     IN \E items \in SetToAllKPermutations(ranked) :
          /\ Len(items) <= PageSize /\ (items = <<>> => ranked = {})
          /\ scope' = NoCapture
          /\ RankingGoes([ranking EXCEPT !.at = "answered",
               !.answer = [kind |-> IF heavy THEN "heavy" ELSE "hybrid", items |-> items,
                           versions |-> {ranking.point[i] : i \in ToSet(items)},
                           packets |-> IF ranking.capture THEN [k \in DOMAIN items |-> FrameOf(scope.frames, items[k])] ELSE <<>>]])

\* The deadline passes, or something else the page is made with fails.
GiveUp == ranking.at \in {"retained", "context", "score", "judged", "page"} /\ Refuses(ranking, "DEADLINE")

\* The thread is free for the next request; the scope stays as it is.
FinishRanking == ranking.at \in {"answered", "refused"} /\ RankingGoes(Unasked) /\ UNCHANGED scope

Load ==
  \/ ReadManifest \/ Hash("model", "hash_model", "hash_scaler") \/ Hash("scaler", "hash_scaler", "judge")
  \/ Judge \/ LoadModel \/ LoadScaler
WarmUp == Stop \/ WithoutWarmUp \/ WarmWithoutRanker \/ BeginWarmUp \/ EndWarmUp
ServeRanking == BeginRanking \/ Retained \/ Context \/ Score \/ Judged \/ Answer \/ GiveUp \/ FinishRanking
RankingNext == Deploy \/ Load \/ WarmUp \/ ServeRanking

---------------------------------------------------------------------------
(* Properties *)

\* A ranker that qualified by its digests has the bytes its manifest names,
\* but for a file replaced between its digest and its reading: the code hashes
\* the files, reads them again and does not compare the two.  A manual override
\* asks for no digest.
Traceable(bytes) ==
  ranker.qualified /\ Quality[bytes["manifest"]] # "override" =>
    \A f \in Files : bytes[f] = bytes["manifest"] \/ f \in ranker.replaced

\* Who is served a heavy page got it from a ranker that is whole, warm where
\* it is warmed up, and qualified unless that was waived, by bytes that can be
\* traced to its manifest; a stopped start-up never serves; a required ranker
\* never gives way; and a page that fell back says why.
RankerHonest ==
  /\ startup.at = "serving" => ~startup.stopped
  /\ RankingAt("answered") =>
       /\ ranking.answer.kind = "heavy" =>
            /\ Selected /\ ranker.at = "loaded" /\ Absent \notin {ranker.model, ranker.scaler}
            /\ ranker.qualified \/ startup.unqualified
            /\ Traceable(LoadedBytes)
            /\ startup.warmup => ranker.warm = "ready"
       /\ ranking.answer.kind = "hybrid" => (ranking.code # "none") = (Selected /\ ~ranking.capture)
       /\ startup.required => ranking.answer.kind = "heavy"

\* Every item of a captured page carries the row it was scored from: of its
\* own repository at the version that was read, for its own user, under the
\* digests of a manifest, a model and a scaler; so a file replaced while the
\* ranker loaded shows in them as another than the manifest's.  Nothing else is
\* captured, and a capture is gone when its request is.
CaptureBound ==
  /\ RankingAt("answered") =>
       IF ranking.capture /\ ranking.hybrid # <<>>
       THEN LET a == ranking.answer IN
            /\ a.kind = "heavy" /\ Absent \notin Range(ranking.digests) /\ Traceable(ranking.digests)
            /\ Len(a.packets) = Len(a.items) /\ \A k \in DOMAIN a.items : a.packets[k] = Row(a.items[k])
            /\ a.versions = {p.version : p \in ToSet(a.packets)}
       ELSE ranking.answer.packets = <<>>
  /\ scope.open => ranking.capture /\ ranking.at \in {"score", "judged", "page"}

\* A heavy page comes from a whole, warm ranker, qualified unless that was
\* waived; one its digests qualified has its manifest's bytes but where a file
\* was replaced between its digest and its reading; and a capture carries the
\* digests of that ranker and the rows of the very ranking it was made for.
RankingSound == RankerHonest /\ CaptureBound
=============================================================================
