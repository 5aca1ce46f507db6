---------------------------- MODULE MCSupporting ----------------------------
(* What the recommendations rest on: the summaries and their provider, the *)
(* sections and vectors of a README, the feedback that comes in by HTTP    *)
(* and the legacy consumer of it, the readiness answer and the settings.   *)
(* Each keeps state of its own, so a behaviour is of one part.             *)
EXTENDS SummaryAdmission, SummaryGeneration, TowerVectors, LegacyFeedback,
        FeedbackIntake, Readiness, Configuration

CONSTANTS w1, w2, c3, k1, k2

VARIABLE part

otherVars == <<readmeVars, towerVars, legacyVars, intakeVars, readyVars, configurationVars>>
everyVars == <<part, vars, summaryVars, otherVars>>

\* Two callers of one provider deployment and one of another with other limits.
TwoLimits ==
  w1 :> [rpm |-> 2, tpm |-> 3] @@ w2 :> [rpm |-> 2, tpm |-> 3] @@ c3 :> [rpm |-> 1, tpm |-> 9]

MCLines ==
  {Kind("heading", 1, "omit"), Kind("heading", 1, "none"), Kind("heading", 2, "setup"), Kind("heading", 2, "none"),
   Kind("heading", 3, "none"), Kind("underline", 1, "none"), Kind("underline", 2, "none"), Kind("text", 0, "none"),
   Kind("text", 0, "omit"), Kind("text", 0, "purpose"), Kind("block", 0, "none"), Kind("blank", 0, "none"),
   Kind("fence", 0, "ticks"), Kind("fence", 0, "tildes"), Kind("reference", 0, "none")}

Section(x, c) == [text |-> x, class |-> c]
MCDocuments ==
  {[readme |-> <<Section("a", "purpose"), Section("b", "setup")>>, metadata |-> "m", topics |-> "p"],
   [readme |-> <<Section("a", "purpose"), Section("b", "neutral")>>, metadata |-> "m", topics |-> "q"],
   [readme |-> <<>>, metadata |-> "n", topics |-> "p"]}

\* An event delivered twice, a reaction and its undoing, two openings of a
\* README, and a glance beside an event that cannot be read.
MCDeliveries == {<<"e1", "e1">>, <<"e2", "e3">>, <<"e4", "e8">>, <<"e5", "e7">>}
MCAction ==
  [e \in Events |-> CASE e = "e1" -> "dwell" [] e = "e2" -> "like" [] e = "e3" -> "unlike"
                      [] e \in {"e4", "e8"} -> "readme_open" [] e = "e5" -> "glance" [] OTHER -> "x"]
MCRepo == [e \in Events |-> "r"]

MCBatches ==
  k1 :> {<<<<"i1", "p">>, <<"i2", "p">>>>} @@ k2 :> {<<<<"i2", "p">>>>, <<<<"i2", "q">>, <<"i3", "p">>>>}
MCConsumers == {<<"new", "a">>, <<"old", "b">>}

Parts == {"admission", "summary", "sections", "chunks", "towers", "legacy", "intake", "ready", "settings"}

SupportingInit ==
  /\ part \in Parts
  /\ Init /\ SummaryInit
  /\ ReadmeInit
  /\ part # "chunks" => text = [size |-> 1, grow |-> {}] /\ chunk.left = 2
  /\ TowerInit
  /\ LegacyInit /\ (part # "legacy" => eventOf = <<"e1", "e1">>)
  /\ IntakeInit
  /\ ReadyInit /\ (part # "ready" => heartbeat.last = NoConsumer)
  /\ ConfigurationInit

Only(name, step, rest) == part = name /\ step /\ UNCHANGED <<part, rest>>

SupportingNext ==
  \/ Only("admission", Next, <<summaryVars, otherVars>>)
  \/ Only("summary", SummaryNext, <<vars, otherVars>>)
  \/ /\ part \in {"sections", "chunks"} /\ IF part = "sections" THEN ReadLine ELSE Cut
     /\ UNCHANGED <<part, vars, summaryVars, towerVars, legacyVars, intakeVars, readyVars, configurationVars>>
  \/ Only("towers", TowerNext, <<vars, summaryVars, readmeVars, legacyVars, intakeVars, readyVars, configurationVars>>)
  \/ Only("legacy", LegacyNext, <<vars, summaryVars, readmeVars, towerVars, intakeVars, readyVars, configurationVars>>)
  \/ Only("intake", IntakeNext, <<vars, summaryVars, readmeVars, towerVars, legacyVars, readyVars, configurationVars>>)
  \/ Only("ready", ReadyNext, <<vars, summaryVars, readmeVars, towerVars, legacyVars, intakeVars, configurationVars>>)
  \/ Only("settings", ConfigurationNext, <<vars, summaryVars, readmeVars, towerVars, legacyVars, intakeVars, readyVars>>)

SupportingSpec == SupportingInit /\ [][SupportingNext]_everyVars

Interchangeable == Permutations({w1, w2})
=============================================================================
