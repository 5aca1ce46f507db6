------------------------------ MODULE Diversity ------------------------------
(***************************************************************************)
(* The candidates kept for ranking and the diverse page made of them:      *)
(* discovery breadth is reserved beside the semantic prefix, a bounded     *)
(* backtracking search reserves the exploration quota under the caps, and  *)
(* the rest is filled greedily.  Owner, fork family, topic and category    *)
(* are labels with a cap each.  Candidates are numbers in the order of     *)
(* their scores; labels being any function of them, the order the search   *)
(* tries them in is that order too.  The order of the greedy fill is left  *)
(* open.                                                                   *)
(***************************************************************************)
EXTENDS Integers, FiniteSets, SequencesExt

CONSTANTS Pool,           \* the fused candidates: 1..n
          MaxPool,        \* max_candidates
          Breadth,        \* DISCOVERY_LIMIT
          Minimum,        \* minimum_exploration
          Sources,        \* the sources the candidates may have come from
          PageLimit, Labels, Cap,
          SearchLimit,    \* quota_search_limit
          MaxNear         \* bound: pairs of near duplicates

ASSUME DiversityAssumption ==
  /\ IsFiniteSet(Pool) /\ Pool \subseteq Nat \ {0} /\ {MaxPool, PageLimit, SearchLimit} \subseteq Nat \ {0}
  /\ {Breadth, Minimum} \subseteq Nat /\ Cap \in [Labels -> Nat \ {0}]
  /\ Sources \subseteq [Pool -> {"semantic", "social", "other"}]

VARIABLES
  div,      \* phase, mode, what is served
  source,   \* candidate -> semantic, social or other
  reserved, \* the social candidates reserved, until the pool is made
  kept,     \* the candidates that go to the ranker
  labels, near, unknown,   \* their metadata, fresh with their vectors
  selected, \* the candidates chosen, in order
  counted,  \* label -> the count record() keeps
  search    \* the explorer tried last, the attempts, whether the budget ended it

metadata == <<labels, near, unknown>>
diversityVars == <<div, source, reserved, kept, metadata, selected, counted, search>>

DiversityInit ==
  /\ source \in Sources
  /\ reserved \in SUBSET Pool /\ Cardinality(reserved) <= MaxPool
  /\ {c \in Pool : source[c] = "social"} \subseteq reserved
  /\ \E mode \in {"disabled", "shadow", "enabled"} : div = [phase |-> "keep", mode |-> mode, served |-> "nothing"]
  /\ kept = {} /\ labels = [c \in Pool |-> {}] /\ near = {} /\ unknown = {}
  /\ selected = <<>> /\ counted = [l \in Labels |-> 0]
  /\ search = [last |-> 0, attempts |-> 0, exhausted |-> FALSE]

---------------------------------------------------------------------------
(* The candidates kept *)

Required == Min({PageLimit, Minimum})
SemanticPool == {c \in Pool : source[c] = "semantic"}
Best(set, n) == {c \in set : Cardinality({d \in set : d < c}) < n}

\* Discovery breadth first: what is not already reserved, then what is; a
\* present semantic candidate before both; social reservations as room allows.
PoolRoom == MaxPool - Cardinality(Best(SemanticPool, 1))
Independent ==
  LET breadth == Min({Max({Breadth, Required}), PoolRoom})
      new == Best((Pool \ SemanticPool) \ reserved, breadth)
  IN  new \cup Best((Pool \ SemanticPool) \cap reserved, breadth - Cardinality(new))
Reservation ==
  IF div.mode # "enabled" THEN reserved
  ELSE LET first == Best(SemanticPool, 1) \cup Independent
       IN  first \cup Best(reserved \ first, MaxPool - Cardinality(first))

\* A quota that leaves no room for a personalized candidate ends the request.
Keep ==
  /\ div.phase = "keep"
  /\ IF div.mode = "enabled" /\ Required > PoolRoom
     THEN div' = [div EXCEPT !.phase = "failed"] /\ UNCHANGED kept
     ELSE /\ kept' = Reservation \cup Best(Pool \ Reservation, Max({0, MaxPool - Cardinality(Reservation)}))
          /\ div' = [div EXCEPT !.phase = "rank"]
  /\ reserved' = {}
  /\ UNCHANGED <<source, metadata, selected, counted, search>>

\* The ranker and the metadata of the candidates kept; without the ranker, or
\* without diversity, the page is the one FeedAssembly makes.
Baseline == IF div.mode = "enabled" THEN [div EXCEPT !.phase = "failed"]
            ELSE [div EXCEPT !.phase = "ended", !.served = "baseline"]
RankPool ==
  /\ div.phase = "rank"
  /\ \/ div' = Baseline /\ UNCHANGED metadata
     \/ /\ div.mode # "disabled"
        /\ unknown' \in {u \in SUBSET kept : Cardinality(u) <= 1}
        /\ labels' \in [kept \ unknown' -> SUBSET Labels]
        /\ near' \in {n \in SUBSET {p \in (kept \ unknown') \X (kept \ unknown') : p[1] < p[2]} :
                       Cardinality(n) <= MaxNear}
        /\ div' = [div EXCEPT !.phase = "search"]
  /\ UNCHANGED <<source, reserved, kept, selected, counted, search>>

---------------------------------------------------------------------------
(* rerank_diverse() *)

Known == kept \ unknown
Explorers == Known \ SemanticPool
Ahead == {c \in Explorers : c > search.last}
Chosen == ToSet(selected)
Near(c, set) == \E d \in set : <<c, d>> \in near \/ <<d, c>> \in near
Feasible(c) == (\A l \in labels[c] : counted[l] < Cap[l]) /\ ~Near(c, Chosen)

Counted(c, delta) == [l \in Labels |-> counted[l] + (IF l \in labels[c] THEN delta ELSE 0)]

Searching == div.phase = "search" /\ Len(selected) < Required

\* An explorer is tried; one that leaves too few behind it is put back at once.
Try ==
  /\ Searching /\ search.attempts < SearchLimit /\ Ahead # {}
  /\ search.last > 0 \/ Cardinality(Explorers) >= Required
  /\ LET c == Min(Ahead)
     IN  /\ search' = [search EXCEPT !.last = c, !.attempts = @ + 1]
         /\ IF Feasible(c) /\ Cardinality(Ahead) > Required - Len(selected) - 1
            THEN selected' = Append(selected, c) /\ counted' = Counted(c, 1)
            ELSE UNCHANGED <<selected, counted>>
  /\ UNCHANGED <<div, source, reserved, kept, metadata>>

\* Mutant: what is put back still counts against the caps.
BacktrackCounting ==
  /\ Searching /\ Ahead = {} /\ selected # <<>>
  /\ selected' = Front(selected) /\ search' = [search EXCEPT !.last = Last(selected)]
  /\ UNCHANGED <<div, source, reserved, kept, metadata, counted>>

\* No explorer was left: the last one chosen is put back.
Backtrack ==
  /\ Searching /\ Ahead = {} /\ selected # <<>>
  /\ selected' = Front(selected) /\ counted' = Counted(Last(selected), -1)
  /\ search' = [search EXCEPT !.last = Last(selected)]
  /\ UNCHANGED <<div, source, reserved, kept, metadata>>

\* The budget ends the search, and everything chosen is put back.
Exhaust ==
  /\ Searching /\ search.attempts >= SearchLimit /\ Ahead # {}
  /\ search' = [search EXCEPT !.exhausted = TRUE]
  /\ selected' = <<>> /\ counted' = [l \in Labels |-> 0]
  /\ div' = [div EXCEPT !.phase = "fill"]
  /\ UNCHANGED <<source, reserved, kept, metadata>>

\* The quota is reserved, or no choice of explorers can be.
Reserved ==
  /\ div.phase = "search"
  /\ \/ Len(selected) >= Required
     \/ selected = <<>> /\ (Ahead = {} \/ Cardinality(Explorers) < Required)
  /\ div' = [div EXCEPT !.phase = "fill"]
  /\ UNCHANGED <<source, reserved, kept, metadata, selected, counted, search>>

Eligible == {c \in Known \ Chosen : Feasible(c)}
Take(c) ==
  /\ div.phase = "fill" /\ Len(selected) < PageLimit /\ c \in Eligible
  /\ selected' = Append(selected, c) /\ counted' = Counted(c, 1)
  /\ UNCHANGED <<div, source, reserved, kept, metadata, search>>

Explored == Cardinality(Chosen \ SemanticPool)
Short == Explored < Required

Usable == unknown = {} /\ ~Short /\ selected # <<>>

\* An unknown identity or too little exploration serves no diverse page; the
\* shadow never serves one.
ServePage ==
  /\ div.phase = "fill" /\ (Len(selected) >= PageLimit \/ Eligible = {})
  /\ div' = IF div.mode = "enabled" /\ Usable THEN [div EXCEPT !.phase = "ended", !.served = "diverse"] ELSE Baseline
  /\ UNCHANGED <<source, reserved, kept, metadata, selected, counted, search>>

\* check_work(): the deadline passes; the shadow's own one ends the shadow only.
Expire ==
  /\ div.phase \in {"search", "fill"}
  /\ div' \in {Baseline, [div EXCEPT !.phase = "failed"]}
  /\ UNCHANGED <<source, reserved, kept, metadata, selected, counted, search>>

DiversityNext ==
  Keep \/ RankPool \/ Try \/ Backtrack \/ Exhaust \/ Reserved \/ (\E c \in kept : Take(c)) \/ ServePage \/ Expire

DiversitySpec == DiversityInit /\ [][DiversityNext]_diversityVars

---------------------------------------------------------------------------
(* Properties *)

Fits(set) ==
  /\ \A l \in Labels : Cardinality({c \in set : l \in labels[c]}) <= Cap[l]
  /\ \A c \in set : ~Near(c, set)

\* The ranker's pool keeps its bound, a semantic candidate where there is
\* one and, under diversity, as many independent ones as the quota asks for,
\* however many social reservations compete for the room.
PoolBalanced ==
  div.phase \notin {"keep", "failed"} =>
    /\ Cardinality(kept) <= MaxPool
    /\ div.mode = "enabled" =>
         /\ SemanticPool # {} => kept \cap SemanticPool # {}
         /\ Cardinality(kept \ SemanticPool) >= Min({Required, Cardinality(Pool \ SemanticPool)})

\* The caps hold through the search and the fill, put-back candidates
\* included; a search that finds no quota within its budget proves that none
\* exists; and a diverse page holds its quota, and is short only where
\* nothing left fits.
QuotaHonest ==
  /\ Fits(Chosen) /\ (Len(selected) > 0 => IsInjective(selected))
  /\ div.phase = "fill" /\ Short /\ ~search.exhausted =>
       \A set \in SUBSET (Known \ SemanticPool) : Cardinality(set) = Required => ~Fits(set)
  /\ div.served = "diverse" =>
       /\ div.mode = "enabled" /\ unknown = {} /\ Explored >= Required
       /\ Len(selected) < PageLimit => \A c \in Known \ Chosen : ~Fits(Chosen \cup {c})

\* A pool trimmed for diversity keeps what it reserved, and a page claims a
\* quota only where it met it.
DiversityHonest == PoolBalanced /\ QuotaHonest
=============================================================================
