-------------------------- MODULE RecommendationPass --------------------------
(***************************************************************************)
(* One recommendation over a collection that changes while it is read: the *)
(* profile, the social lookup, the semantic rounds, the discovery channels *)
(* (shared with other requests or not), the fusion, the second read of the *)
(* retained candidates with their vectors, the ranking and the answer.     *)
(*                                                                         *)
(* A repository's point is its snapshot number and whether it is eligible; *)
(* a score stands for the snapshot it was computed from.  What             *)
(* SharedDiscovery shows is assumed of the shared pool: under an unchanged *)
(* revision it holds the collection as it is.  A deadline that passes is   *)
(* the failure that may come at any stage.                                 *)
(***************************************************************************)
EXTENDS Integers, FiniteSets, FiniteSetsExt

CONSTANTS Repos,
          Searches,       \* the discovery channels, in their order: 1..n
          Limit,          \* the items asked for
          SemanticTarget, PerChannel,
          MaxCandidates,
          Reads,          \* max_candidates * _CANDIDATE_READ_MULTIPLIER
          Rounds,         \* _MAX_RETRIEVAL_ROUNDS
          MaxChanges,     \* bound: how often the collection changes
          MaxExclusions   \* bound: repositories excluded by request or profile

ASSUME PassAssumption ==
  /\ {Limit, SemanticTarget, PerChannel, MaxCandidates, Reads, Rounds} \subseteq Nat \ {0}
  /\ Searches \subseteq Nat /\ IsFiniteSet(Searches) /\ IsFiniteSet(Repos)

VARIABLES
  points,    \* repository -> snapshot and eligibility
  revision,  \* the revision of the collection: how often it changed
  pass,      \* the request: stage, mode, exclusions, budget, discovery plan
  channel,   \* channel -> its read: unsent, sent with a limit, answered
  seen,      \* repository -> the snapshot this request validated first
  conflicts, \* inline: repositories observed in two snapshots, or ineligible
  semantic, discovery, social,  \* repository -> the snapshot a source scored
  held,      \* the points of a shared pool kept over a refill
  retained   \* the candidates kept for ranking, and then the answer

passVars == <<points, revision, pass, channel, seen, conflicts, semantic, discovery, social, held, retained>>
sources == <<semantic, discovery, social, held>>

AtMost(n, m) == IF n < m THEN n ELSE m
None == [r \in Repos |-> 0]
Scored(source) == {r \in Repos : source[r] > 0}
Unsent == [state |-> "unsent", limit |-> 0, without |-> {}, got |-> None]

\* inline: vectors are read with the candidates, only for a required heavy
\* ranker; injects: social candidates may join; shared: an authority answers.
Modes == {m \in [heavy : BOOLEAN, required : BOOLEAN, inline : BOOLEAN, injects : BOOLEAN, shared : BOOLEAN] :
            m.inline => m.heavy /\ m.required /\ ~m.shared}

PassInit ==
  /\ points = [r \in Repos |-> [v |-> 1, ok |-> TRUE]] /\ revision = 0
  /\ \E m \in Modes, asked, dislikes \in SUBSET Repos :
       /\ Cardinality(asked \cup dislikes) <= MaxExclusions
       /\ pass = [pc |-> IF m.inline THEN "profile" ELSE "prepare", mode |-> m, asked |-> asked,
               dislikes |-> dislikes, excluded |-> asked, vector |-> FALSE,
               lookup |-> IF m.injects THEN "sent" ELSE "unsent",
               left |-> IF m.injects THEN Reads - AtMost(Cardinality(Repos \ asked), Reads) ELSE Reads,
               round |-> 1, skipped |-> {}, good |-> 0, lease |-> "none", under |-> 0]
  /\ channel = [c \in Searches |-> Unsent]
  /\ seen = None /\ conflicts = {}
  /\ semantic = None /\ discovery = None /\ social = None /\ held = None /\ retained = {}

---------------------------------------------------------------------------
(* Reads of the collection *)

Running == pass.pc \notin {"failed", "done"}

Change(r) ==
  /\ Running /\ revision < MaxChanges /\ revision' = revision + 1
  /\ \E ok \in BOOLEAN : points' = [points EXCEPT ![r] = [v |-> @.v + 1, ok |-> ok]]
  /\ UNCHANGED <<pass, channel, seen, conflicts, sources, retained>>

Versions(repos) == [r \in Repos |-> IF r \in repos THEN points[r].v ELSE 0]
Without(got, repos) == [r \in Repos |-> IF r \in repos THEN 0 ELSE got[r]]
Over(first, second) == [r \in Repos |-> IF first[r] # 0 THEN first[r] ELSE second[r]]

\* _eligible_filter(): the filter applies before the limit.
Answers(limit, without) ==
  LET all == {r \in Repos : points[r].ok /\ r \notin without}
  IN  {s \in SUBSET all : Cardinality(s) = AtMost(limit, Cardinality(all))}

\* _eligible_repository_point(): with its memo, the first snapshot validated
\* is the one a request goes on with; the inline proof validates each anew.
Taken(got) == IF pass.mode.inline THEN got
              ELSE [r \in Repos |-> IF got[r] = 0 THEN 0 ELSE Over(seen, got)[r]]
Observe(got, all) ==
  /\ seen' = Over(seen, got)
  /\ conflicts' = IF ~pass.mode.inline THEN conflicts
                  ELSE conflicts \cup {r \in Repos : \E o \in all : o[r] # 0 /\ o[r] # seen'[r]}
Unobserved == UNCHANGED <<seen, conflicts>>

PassGoes(pc) == pass' = [pass EXCEPT !.pc = pc]

\* A failed request serves nothing, and its workers are drained.
Raise ==
  /\ Running
  /\ PassGoes("failed")
  /\ channel' = [c \in Searches |-> Unsent] /\ seen' = None /\ conflicts' = {}
  /\ semantic' = None /\ discovery' = None /\ social' = None /\ held' = None /\ retained' = {}
  /\ UNCHANGED <<points, revision>>

---------------------------------------------------------------------------
(* The profile and the discovery plan *)

\* Mutant: what the profile dislikes is not excluded.
ProfileKeepsExclusions ==
  /\ pass.pc = "profile"
  /\ \E vector \in BOOLEAN :
       pass' = [pass EXCEPT !.vector = vector,
                            !.pc = IF pass.mode.inline THEN (IF vector THEN "prepare" ELSE "failed")
                                   ELSE IF pass.mode.required /\ ~pass.mode.heavy THEN "failed"
                                   ELSE IF vector THEN "semantic" ELSE "discovery"]
  /\ UNCHANGED <<points, revision, channel, seen, conflicts, sources, retained>>

\* The profile names further exclusions.  Inline vectors need it first; a
\* required heavy ranker that was not selected ends the request.
Profile ==
  /\ pass.pc = "profile"
  /\ \E vector \in BOOLEAN :
       pass' = [pass EXCEPT !.vector = vector, !.excluded = @ \cup pass.dislikes,
                            !.pc = IF pass.mode.inline THEN (IF vector THEN "prepare" ELSE "failed")
                                   ELSE IF pass.mode.required /\ ~pass.mode.heavy THEN "failed"
                                   ELSE IF vector THEN "semantic" ELSE "discovery"]
  /\ UNCHANGED <<points, revision, channel, seen, conflicts, sources, retained>>

\* _start_discovery(): the channels reserve their reads in turn.
Sent(without, chosen) ==
  [c \in Searches |->
     LET room == pass.left - PerChannel * Cardinality({d \in chosen : d < c})
     IN IF c \in chosen /\ room > 0
        THEN [Unsent EXCEPT !.state = "sent", !.limit = AtMost(PerChannel, room), !.without = without]
        ELSE Unsent]
\* What they reserve together: what they ask for, or all that is left.
Spent(chosen) == AtMost(PerChannel * Cardinality(chosen), pass.left)

\* _prepare_discovery(): under a revision a pool is found or refreshed; the
\* channels of a refresh exclude nobody.
Prepare ==
  /\ pass.pc = "prepare"
  /\ \E lease \in IF pass.mode.shared THEN {"none", "owner", "pool"} ELSE {"none"} :
       /\ channel' = IF lease = "pool" THEN channel
                     ELSE Sent(IF lease = "none" THEN pass.excluded ELSE {}, Searches)
       /\ pass' = [pass EXCEPT !.lease = lease, !.under = revision,
                               !.left = IF lease = "pool" THEN @ ELSE @ - Spent(Searches),
                               !.pc = IF pass.mode.inline THEN "semantic" ELSE "profile"]
  /\ UNCHANGED <<points, revision, seen, conflicts, sources, retained>>

\* The workers of the request read in their own time, or fail.
ReadChannel(c) ==
  /\ Running /\ channel[c].state = "sent"
  /\ \/ channel' = [channel EXCEPT ![c] = [Unsent EXCEPT !.state = "failed"]]
     \/ \E s \in Answers(channel[c].limit, channel[c].without) :
          channel' = [channel EXCEPT ![c].state = "read", ![c].got = Versions(s)]
  /\ UNCHANGED <<points, revision, pass, seen, conflicts, sources, retained>>

\* The lookup is by identity: it also answers what is not eligible.  It asks
\* for no more than its reads allow.
ReadSocial ==
  /\ Running /\ pass.lookup = "sent"
  /\ \/ pass' = [pass EXCEPT !.lookup = "failed"] /\ UNCHANGED social
     \/ /\ pass' = [pass EXCEPT !.lookup = "read"]
        /\ \E ids \in SUBSET (Repos \ pass.asked) :
             /\ Cardinality(ids) = AtMost(Cardinality(Repos \ pass.asked), Reads)
             /\ social' = [r \in Repos |-> IF r \notin ids THEN 0
                                           ELSE IF points[r].ok THEN points[r].v ELSE -points[r].v]
  /\ UNCHANGED <<points, revision, channel, seen, conflicts, semantic, discovery, held, retained>>

---------------------------------------------------------------------------
(* _semantic(): rounds, until enough, exhausted or out of reads *)

Onward == [pass EXCEPT !.pc = "discovery", !.round = 1, !.skipped = {}]

ReadSemantic ==
  /\ pass.pc = "semantic"
  /\ LET limit == AtMost(SemanticTarget - Cardinality(Scored(semantic)), pass.left) IN
     \/ /\ pass' = [Onward EXCEPT !.left = @ - limit]  \* the read fails: what was read is kept
        /\ Unobserved /\ UNCHANGED semantic
     \/ /\ limit > 0
        /\ \E s \in Answers(limit, pass.excluded \cup pass.skipped) :
             LET got == Versions(s)
                 next == Over(semantic, Taken(got))
                 last == Cardinality(Scored(next)) >= Limit \/ Cardinality(s) < limit \/ pass.round = Rounds
             IN /\ semantic' = next /\ Observe(got, {got})
                /\ pass' = [(IF last THEN Onward ELSE [pass EXCEPT !.round = @ + 1, !.skipped = @ \cup s])
                              EXCEPT !.left = @ - limit]
  /\ UNCHANGED <<points, revision, channel, discovery, social, held, retained>>

---------------------------------------------------------------------------
(* _complete_discovery() *)

AllAnswered == \A c \in Searches : channel[c].state # "sent"
Succeeded == {c \in Searches : channel[c].state = "read"}
Got == {channel[c].got : c \in Succeeded}
ReadIds == UNION {Scored(got) : got \in Got}
Full == {c \in Succeeded : Cardinality(Scored(channel[c].got)) >= PerChannel}

\* The channels in their order: the first observation of each repository.
Merged == [r \in Repos |-> LET having == {c \in Succeeded : channel[c].got[r] # 0}
                           IN IF having = {} THEN 0 ELSE channel[Min(having)].got[r]]

Enough(found) == Cardinality(UNION {Scored(semantic), Scored(held), Scored(found)}) >= Limit

\* _checked_discovery_pool_current()
PoolCurrent == revision = pass.under

\* Discovery ends; its plan is released.
Discovered(found, lease) ==
  /\ discovery' = found /\ held' = None /\ channel' = [c \in Searches |-> Unsent]
  /\ pass' = [pass EXCEPT !.pc = "social", !.round = 1, !.skipped = {}, !.good = 0, !.lease = lease, !.under = 0]

\* Without any answer the request goes on with what else it may have.
NothingFound ==
  IF Scored(semantic) = {} /\ ~pass.mode.injects
  THEN PassGoes("failed") /\ UNCHANGED <<channel, discovery, held>>
  ELSE Discovered(None, pass.lease)

Refill(kept, without) ==
  LET left == pass.excluded \cup without IN
  /\ held' = kept /\ channel' = Sent(left, Searches)
  /\ pass' = [pass EXCEPT !.pc = "refill", !.left = @ - Spent(Searches), !.skipped = without]

\* The owner of a refresh: all channels under an unchanged revision make a
\* pool, fewer may do for this request alone.  The pool may expire.
OwnPool ==
  /\ pass.pc = "discovery" /\ pass.lease = "owner" /\ AllAnswered
  /\ LET found == Without(Merged, pass.excluded)
         whole == Succeeded = Searches
     IN \/ /\ Succeeded = {}
           /\ NothingFound
        \/ /\ Succeeded # {} /\ (whole => PoolCurrent)
           /\ Enough(found) \/ (whole /\ Full = {} /\ pass.excluded = {})
           /\ Discovered(found, IF whole THEN "owner" ELSE "partial")
        \/ /\ Succeeded # {} /\ PoolCurrent /\ ~Enough(found)
           /\ Refill(found, ReadIds) /\ UNCHANGED discovery
        \/ /\ Succeeded # {} /\ (~whole => ~Enough(found))
           /\ Refill(None, {}) /\ UNCHANGED discovery
  /\ Unobserved /\ UNCHANGED <<points, revision, semantic, social, retained>>

\* A pool found, or refreshed by another request, is taken under the revision
\* of the plan; when it cannot be had the request reads for itself.
JoinPool ==
  /\ pass.pc = "discovery" /\ pass.lease = "pool"
  /\ \/ /\ PoolCurrent
        /\ \E s \in SUBSET {r \in Repos : points[r].ok} :
             LET found == Without(Versions(s), pass.excluded) IN
             \/ Discovered(found, "pool")
             \/ ~Enough(found) /\ Refill(found, {}) /\ UNCHANGED discovery
     \/ Refill(None, {}) /\ UNCHANGED discovery
  /\ Unobserved /\ UNCHANGED <<points, revision, semantic, social, retained>>

\* _collect_discovery(): reads of this request alone, through its memo, again
\* from the channels that had more.  A pool held meanwhile is checked again.
Collect ==
  /\ pass.pc = "refill" \/ (pass.pc = "discovery" /\ pass.lease = "none")
  /\ AllAnswered
  /\ LET found == Over(discovery, Without(Taken(Merged), pass.excluded))
         without == pass.excluded \cup pass.skipped \cup ReadIds
         more == /\ ~Enough(found) /\ Spent(Full) > 0
                 /\ pass.round < (IF pass.lease = "owner" THEN 2 ELSE Rounds)
         good == pass.good + Cardinality(Succeeded)
     IN IF more
        THEN /\ discovery' = found /\ channel' = Sent(without, Full) /\ UNCHANGED held
             /\ pass' = [pass EXCEPT !.round = @ + 1, !.skipped = without, !.left = @ - Spent(Full), !.good = good]
        ELSE LET all == IF PoolCurrent THEN Over(held, found) ELSE found
             IN IF good = 0 /\ all = None THEN NothingFound ELSE Discovered(all, pass.lease)
  /\ Observe(Merged, Got)
  /\ UNCHANGED <<points, revision, semantic, social, retained>>

---------------------------------------------------------------------------
(* Fusion *)

\* A discovery payload replaces the semantic one; social evidence joins the
\* same snapshot only.
Metadata == Over(discovery, semantic)
Compatible == {r \in Scored(social) \ pass.excluded : Metadata[r] \in {0, social[r]}}

\* The social answer is taken; an inline proof sees it too.
Social ==
  /\ pass.pc = "social" /\ pass.lookup # "sent"
  /\ social' = [r \in Repos |-> IF r \in Compatible THEN social[r] ELSE 0]
  /\ IF pass.mode.inline THEN Observe(social, {social}) ELSE Unobserved
  /\ PassGoes("fuse")
  /\ UNCHANGED <<points, revision, channel, semantic, discovery, held, retained>>

\* Inline conflicts drop out; the pool is bounded and keeps social candidates
\* before others.
Fuse ==
  /\ pass.pc = "fuse"
  /\ LET candidates == (UNION {Scored(semantic), Scored(discovery), Scored(social)}) \ conflicts
         reserved == Scored(social) \ conflicts IN
     \E s \in SUBSET candidates :
       /\ Cardinality(s) = AtMost(MaxCandidates, Cardinality(candidates))
       /\ reserved \subseteq s \/ s \subseteq reserved
       /\ retained' = s
  /\ PassGoes(IF pass.mode.heavy /\ pass.vector THEN "hydrate" ELSE "rank")
  /\ seen' = None /\ conflicts' = {}  \* not read again
  /\ UNCHANGED <<points, revision, channel, sources>>

\* _hydrate_retained_candidates(): vectors are read with their payload again,
\* and what has changed since is dropped.  An inline pair needs no such read.
\* A read that fails leaves the hybrid ranking.
AsMerged(r) == points[r].ok /\ points[r].v = Over(Metadata, social)[r]

Hydrate ==
  /\ pass.pc = "hydrate"
  /\ \/ pass.mode.inline /\ retained \subseteq Scored(Metadata) /\ PassGoes("rank") /\ UNCHANGED retained
     \/ /\ ~(pass.mode.inline /\ retained \subseteq Scored(Metadata))
        /\ \/ retained' = {r \in retained : AsMerged(r)} /\ PassGoes("rank")
           \/ PassGoes("fallback") /\ UNCHANGED retained
  /\ UNCHANGED <<points, revision, channel, seen, conflicts, sources>>

\* _heavy_rank() and the answer: the heavy ranker scores every retained
\* candidate or none, and where it is required nothing else is served.
RankCandidates ==
  /\ pass.pc \in {"rank", "fallback"}
  /\ \E heavy \in {FALSE, pass.pc = "rank" /\ pass.mode.heavy /\ pass.vector /\ retained # {}} :
       IF pass.mode.required /\ ~heavy THEN PassGoes("failed") /\ UNCHANGED retained
       ELSE /\ pass' = [pass EXCEPT !.pc = "done", !.good = IF heavy THEN 1 ELSE 0]
            /\ \E s \in SUBSET (retained \ pass.excluded) :
                 /\ Cardinality(s) = AtMost(Limit, Cardinality(retained \ pass.excluded))
                 /\ retained' = s
  /\ UNCHANGED <<points, revision, channel, seen, conflicts, sources>>

PassNext ==
  \/ \E r \in Repos : Change(r)
  \/ Profile \/ Prepare \/ ReadSocial \/ ReadSemantic \/ OwnPool \/ JoinPool \/ Collect
  \/ Social \/ Fuse \/ Hydrate \/ RankCandidates \/ Raise
  \/ \E c \in Searches : ReadChannel(c)

---------------------------------------------------------------------------
Contributions(r) == {semantic[r], discovery[r], social[r]} \ {0}
Served == IF pass.pc = "done" THEN retained ELSE {}

\* "Do not combine a stale semantic/discovery score with newer content,
\* feature or eligibility metadata" (retrieval/v2_retriever.py:905): all that
\* contributed to a served item was of one snapshot of its repository.
OneSnapshot == \A r \in Served : Cardinality(Contributions(r)) = 1

\* The same of every answer but those that a partly failed refresh gave to its
\* owner alone (_complete_discovery): shared pools, refills, the social lookup
\* and the vectors never mix snapshots, whenever the collection changes.
OneSnapshotShared == pass.lease # "partial" => OneSnapshot

\* What the request or the profile excludes is never served, whenever it was
\* learned; a required heavy ranker is never replaced; and the reads stay
\* within the budget.
AnswerHonest ==
  /\ Served \cap (pass.asked \cup pass.dislikes) = {}
  /\ pass.pc = "done" /\ pass.mode.required => pass.good = 1
  /\ pass.left >= 0

\* An answer holds only what its own metadata says may be served, scored
\* from one snapshot unless it is the partial answer of an owner.
PassHonest == AnswerHonest /\ OneSnapshotShared
=============================================================================
