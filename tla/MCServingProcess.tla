-------------------------- MODULE MCServingProcess --------------------------
(* Two recommendations with three reads, two searches for one query and    *)
(* two for another, of which the last then reads the store, two embedding  *)
(* jobs (of which one is refused when they meet) and the diagnostic job;   *)
(* at most two come in one behaviour.  The discovery pools that two        *)
(* requests share are run beside them, in behaviours of their own.         *)
EXTENDS ServingProcess

VARIABLES epoch, auth, minted, corpus, writer, limbo,          \* the revision authority
          pools, flights, waiting, future, stale, req,         \* the shared pools
          part                                                 \* what the behaviour is of

Sharers == {"d1", "d2"}
Discovery ==
  INSTANCE SharedDiscovery WITH
    Writers <- {"writer"}, MaxWriters <- 1, MaxMinted <- 1, MaxRestarts <- 0,
    Requests <- Sharers, NoRequest <- "none", Channels <- 1, MaxEntries <- 1, MaxFlights <- 1, MaxWaiting <- 1
discoveryVars ==
  <<epoch, auth, minted, corpus, writer, limbo, pools, flights, waiting, future, stale, req>>

MCRequests == {"r1", "r2", "s1", "s2", "s3", "s4", "e1", "e2", "h"}
MCClasses == {"recommendation", "search", "embedding", "health"}
MCClassOf ==
  [r \in MCRequests |-> CASE r \in {"r1", "r2"} -> "recommendation" [] r \in {"s1", "s2", "s3", "s4"} -> "search"
                          [] r \in {"e1", "e2"} -> "embedding" [] r = "h" -> "health"]
MCLimited == {"recommendation", "search"}
MCWorkers == [c \in MCClasses |-> IF c = "search" THEN 2 ELSE 1]
MCCapacity == [c \in MCClasses |-> IF c \in {"search", "recommendation"} THEN 2 ELSE 1]
MCReads == {<<"r1", 1>>, <<"r1", 2>>, <<"r2", 1>>, <<"s4", 1>>}
Coming == {{"r1", "r2"}, {"s1", "s2"}, {"s2", "s3"}, {"s4", "e1"}, {"e1", "e2"}, {"h"}}
MCAbsences == {MCRequests \ come : come \in Coming}
MCQuery == [s \in {"s1", "s2", "s3", "s4"} |-> IF s \in {"s3", "s4"} THEN "p" ELSE "q"]

\* Bound: only a behaviour without searches starts another generation, and
\* one of shared pools starts from one state of the process.
MCInit ==
  /\ Init /\ (generation = MaxGenerations <=> \E s \in DOMAIN MCQuery : pc[s] = "new")
  /\ Discovery!Init /\ part \in {"process", "discovery"}
  /\ part = "discovery" => pc["h"] = "new"
MCNext ==
  /\ UNCHANGED part
  /\ \/ part = "process" /\ Next /\ UNCHANGED discoveryVars
     \/ part = "discovery" /\ Discovery!Next /\ UNCHANGED vars
MCFairness ==
  /\ WF_vars(part = "process" /\ Progress)
  /\ \A r \in Sharers :
       WF_discoveryVars(part = "discovery" /\ Discovery!Progress(r)
                        /\ UNCHANGED <<epoch, auth, minted, corpus, writer, limbo>>)
MCSpec == MCInit /\ [][MCNext]_<<vars, discoveryVars, part>> /\ MCFairness

\* A retired process ends its plan, and its generation's clients are closed;
\* every request that shares a pool ends, whatever its owner comes to.
ServingEnds ==
  /\ part = "process" => RetirementEnds
  /\ part = "discovery" => Discovery!Answered
=============================================================================
