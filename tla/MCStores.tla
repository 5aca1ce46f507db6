------------------------------ MODULE MCStores ------------------------------
(* The records that outlive a run and the jobs that write them: the        *)
(* acquisition checkpoint, the recorded trending success and a             *)
(* repository's point.  They share no state, so a behaviour is of one.     *)
EXTENDS CorpusPipeline, TrendingRefresh, RepositoryJobs, TLC

VARIABLE part

vars == <<part, corpusVars, trendingVars, repositoryVars>>

MCPages == {{"a", "b"}, {"a"}}

\* Two contents, a refresh between them that finds the repository archived,
\* and one that could observe nothing.
Seen(status, at, archived) == [status |-> status, at |-> at, archived |-> archived]
MCVersion == [j \in JobIds |-> IF j \in {"e1", "f1"} THEN 1 ELSE 2]
MCHash == [j \in EmbedJobs |-> IF j = "e1" THEN "h1" ELSE "h2"]
MCObservation ==
  [j \in JobIds |-> CASE j = "e1" -> Seen("verified", 1, FALSE) [] j = "e2" -> Seen("unavailable", 3, FALSE)
                      [] j = "f1" -> Seen("verified", 2, TRUE) [] j = "f2" -> Unobserved]
Often(twice, once) == [j \in JobIds |-> IF j = twice THEN 2 ELSE IF j \in once THEN 1 ELSE 0]
Contents == Often("e1", {"e2", "f1"})
MCDeliveries == {Contents, Often("", {"e1", "f1", "f2"})}

Init ==
  /\ CorpusInit /\ TrendingInit /\ RepositoryInit
  /\ part \in {"corpus", "trending", "repository"}
  /\ part # "repository" => left = Contents

Next ==
  \/ part = "corpus" /\ CorpusNext /\ UNCHANGED <<part, trendingVars, repositoryVars>>
  \/ part = "trending" /\ TrendingNext /\ UNCHANGED <<part, corpusVars, repositoryVars>>
  \/ part = "repository" /\ RepositoryNext /\ UNCHANGED <<part, corpusVars, trendingVars>>

MCSymmetry == Permutations(Names) \cup Permutations(Trenders)

Spec == Init /\ [][Next]_vars
=============================================================================
