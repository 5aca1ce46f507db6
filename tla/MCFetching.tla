----------------------------- MODULE MCFetching -----------------------------
(* How an acquisition run fetches: the README scheduler of two runs that   *)
(* share one artifact, and the quota coordinators of three clients in two  *)
(* authorization scopes.  The scheduler sees of the coordinators only that *)
(* a fetch is told to retry later, so a behaviour is of one of the parts.  *)
EXTENDS ReadmeScheduler, GitHubQuota

VARIABLE part

vars == <<part, schedulerVars, quotaVars>>

MCRunOf == [c \in Consumers |-> IF c = "c1" THEN "r1" ELSE "r2"]
MCWork == [c \in Consumers |-> IF c = "c1" THEN <<"j1", "j2">> ELSE <<"j4">>]
MCKeyOf == [j \in Jobs |-> IF j = "j2" THEN "k2" ELSE "k1"]
MCWorkers == [r \in Runs |-> IF r = "r1" THEN 2 ELSE 1]
MCRetries == [j \in Jobs |-> IF j = "j2" THEN 0 ELSE 1]
MCScopeOf == [c \in Clients |-> IF c = "q3" THEN "sb" ELSE "sa"]

Init == SchedulerInit /\ QuotaInit /\ part \in {"readme", "quota"}

InReadme(step) == part = "readme" /\ step /\ UNCHANGED <<part, quotaVars>>
InQuota(step) == part = "quota" /\ step /\ UNCHANGED <<part, schedulerVars>>

Next == InReadme(SchedulerNext) \/ InQuota(QuotaNext)

\* The threads of a run and of a client go on, and time passes; a retry that
\* waits for a worker gets one if again and again there is one.
Fairness ==
  /\ WF_vars(InReadme(\E c \in Consumers : ConsumerStep(c)))
  /\ \A j \in Jobs : WF_vars(InReadme(AttemptStep(j))) /\ SF_vars(InReadme(Dispatch(j)))
  /\ WF_vars(InReadme(\E r \in Runs : RunStep(r)))
  /\ WF_vars(InQuota(Tick))
  /\ \A c \in Clients : WF_vars(InQuota(ClientStep(c)))

FairSpec == Init /\ [][Next]_vars /\ Fairness

\* A run that stops is one that answers: whatever is retried, cancelled or
\* shared with another run, every run closes its sessions in the end.  No
\* client waits for ever: again and again every request has been admitted or
\* given up, whatever chain of deferrals came before.
FetchingEnds == (part = "readme" => RunsEnd) /\ (part = "quota" => EventuallyAdmitted)
=============================================================================
