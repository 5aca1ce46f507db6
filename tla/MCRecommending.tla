--------------------------- MODULE MCRecommending ---------------------------
(* What one recommendation is made of: the shared discovery pools it       *)
(* takes, the pass that fuses its candidates, their ranking, the diverse   *)
(* page and the assembly of the page.  Each is modelled for itself and     *)
(* shares no state with the others, so a behaviour is of one part.         *)
EXTENDS SharedDiscovery, RecommendationPass, HeavyRanking, Diversity, FeedAssembly, TLC

CONSTANTS ra, rb, Parts

VARIABLE part

everyVars == <<part, vars, passVars, rankingVars, diversityVars, feedVars>>

\* Four releases of the ranker: two that may serve, one only where allowed
\* and one made for other features.
MCQuality ==
  [x \in Builds |-> CASE x = "good" -> "qualified" [] x = "other" -> "override"
                      [] x = "bad" -> "unqualified" [] OTHER -> "incompatible"]
MCPreprocessing == [x \in Builds |-> IF x = "other" THEN "q" ELSE "p"]
MCDisks ==
  {[f \in Files |-> "good"], [f \in Files |-> IF f = "manifest" THEN Absent ELSE "good"],
   [f \in Files |-> IF f = "manifest" THEN "other" ELSE "bad"]}

From(query, graph) ==
  [c \in Pool |-> IF c \in query THEN "semantic" ELSE IF c \in graph THEN "social" ELSE "other"]
MCSources == {From({1}, {4}), From({3}, {1, 2}), From({}, {4})}
MCCap == [l \in Labels |-> IF l = "t" THEN 2 ELSE 1]

\* A part that does not move starts in one state.
RecommendingInit ==
  /\ part \in Parts
  /\ Init
  /\ PassInit
  /\ part # "pass" => pass.mode = (CHOOSE m \in Modes : TRUE) /\ pass.asked \cup pass.dislikes = {}
  /\ RankingInit
  /\ part # "ranking" => disk = [f \in Files |-> "good"] /\ ~startup.required /\ ~startup.unqualified /\ ~startup.warmup
  /\ DiversityInit
  /\ part # "diversity" => source = From({1}, {4}) /\ reserved = {4} /\ div.mode = "disabled"
  /\ FeedInit
  /\ part # "page" => language = [i \in Ranked |-> NoLanguage] /\ unseen = Ranked /\ target = 2 /\ share = 0

Only(name, step, rest) == part = name /\ step /\ UNCHANGED <<part, rest>>

RecommendingNext ==
  \/ Only("pool", Next, <<passVars, rankingVars, diversityVars, feedVars>>)
  \/ Only("pass", PassNext, <<vars, rankingVars, diversityVars, feedVars>>)
  \/ Only("ranking", RankingNext, <<vars, passVars, diversityVars, feedVars>>)
  \/ Only("diversity", DiversityNext, <<vars, passVars, rankingVars, feedVars>>)
  \/ Only("page", ShapeNext, <<vars, passVars, rankingVars, diversityVars>>)
  \/ Only("anchor", AnchorNext, <<vars, passVars, rankingVars, diversityVars>>)

RecommendingSpec == RecommendingInit /\ [][RecommendingNext]_everyVars

MCSymmetry == Permutations(Requests) \cup Permutations({ra, rb})

=============================================================================
