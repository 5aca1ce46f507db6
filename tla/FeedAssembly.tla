----------------------------- MODULE FeedAssembly -----------------------------
(***************************************************************************)
(* The page made of a ranked pool: the language cap, the stable            *)
(* exploitation prefix and the tail walked through the rest of the pool by *)
(* a random stride.  The candidates are numbers in the order of their      *)
(* final scores, the freshness boost included; and the hour a generation's *)
(* retries are scored at, kept in a bounded FIFO.                          *)
(***************************************************************************)
EXTENDS Integers, FiniteSets, SequencesExt

CONSTANTS Ranked,         \* the ranked candidates: 1..n
          Languages, NoLanguage,
          MaxSameLanguage, Targets,
          Shares,         \* explore_fraction is 1/n for an n of Shares; 0 is none
          MaxSeen,        \* bound: candidates the reader has been shown
          Generations, AnchorCapacity, AnchorTicks,
          MaxAnchorTime   \* bound: the clock, an hour of it being two ticks

ASSUME FeedAssumption ==
  /\ IsFiniteSet(Ranked) /\ Ranked \subseteq Nat /\ NoLanguage \notin Languages /\ Targets \subseteq Nat /\ Shares \subseteq Nat \ {1}
  /\ {MaxSameLanguage, AnchorCapacity, AnchorTicks} \subseteq Nat \ {0}

VARIABLES
  language, \* candidate -> its primary language
  unseen,   \* the candidates the reader has not been shown
  target, share,
  walk,     \* phase, the pool walked, the next offset, its start and stride
  tier, deferred, page,
  clock, anchors,  \* the FIFO of [generation, expires, hour]
  reading,  \* the requests that have read the clock: generation and time
  pledges,  \* generation -> the anchor its retries are promised
  answer    \* the hour answered last, and the hour promised

shapeVars == <<language, unseen, target, share, walk, tier, deferred, page>>
anchorVars == <<clock, anchors, reading, pledges, answer>>
feedVars == <<shapeVars, anchorVars>>

---------------------------------------------------------------------------
(* shape_batch() *)

FeedInit ==
  /\ language \in [Ranked -> Languages \cup {NoLanguage}]
  /\ unseen \in SUBSET Ranked /\ target \in Targets /\ share \in Shares /\ Cardinality(Ranked \ unseen) <= MaxSeen
  /\ walk = [phase |-> "split", pool |-> <<>>, offset |-> 0, start |-> 0, step |-> 1, wanted |-> 0]
  /\ tier = <<>> /\ deferred = <<>> /\ page = <<>>
  /\ clock = 0 /\ anchors = <<>> /\ reading = <<>>
  /\ pledges = [g \in Generations |-> [hour |-> 0, expires |-> 0, newer |-> 0]] /\ answer = [hour |-> 0, promised |-> {}]

AsRanked(set) == [k \in 1..Cardinality(set) |-> CHOOSE i \in set : Cardinality({j \in set : j < i}) = k - 1]
Speaking(items, l) == {i \in items : language[i] = l}
AtCap(items, i) == language[i] # NoLanguage /\ Cardinality(Speaking(items, language[i])) >= MaxSameLanguage

\* Whoever is over the cap of his language goes behind everybody else.
Overflow == {i \in unseen : AtCap({j \in unseen : j < i}, i)}
Ordered == AsRanked(unseen \ Overflow) \o AsRanked(Overflow)

\* A stride shares no divisor with the pool's size.
Coprime(n, size) == \A d \in 2..size : n % d # 0 \/ size % d # 0
\* Mutant: any stride will do.
StrideAny(n, size) == n
Stride(n, size) ==
  LET fit == {s \in n..(size - 1) : Coprime(s, size)}
  IN  IF size = 1 THEN 1 ELSE IF fit = {} THEN 1 ELSE Min(fit)

SizeOfPage == Min({target, Cardinality(unseen)})

\* The page is cut to the target before the tail is explored.
Split ==
  /\ walk.phase = "split"
  /\ IF SizeOfPage < 3 \/ share = 0
     THEN /\ page' = SubSeq(Ordered, 1, SizeOfPage)
          /\ walk' = [walk EXCEPT !.phase = "served"]
          /\ tier' = tier
     ELSE LET explore == Min({Max({1, SizeOfPage \div share}), SizeOfPage - 1})
              exploit == SizeOfPage - explore
              pool == SubSeq(Ordered, exploit + 1, Len(Ordered))
          IN  /\ page' = SubSeq(Ordered, 1, exploit)
              /\ \E start \in 0..(Len(pool) - 1), n \in 1..Max({1, Len(pool) - 1}) :
                   walk' = [phase |-> "walk", pool |-> pool, offset |-> 0, start |-> start,
                            step |-> Stride(n, Len(pool)), wanted |-> explore]
              /\ tier' = tier
  /\ UNCHANGED <<language, unseen, target, share, deferred, anchorVars>>

\* One stop of the walk: an item whose language is full waits.
Visit ==
  /\ walk.phase = "walk" /\ walk.offset < Len(walk.pool) /\ Len(tier) < walk.wanted
  /\ LET i == walk.pool[((walk.start + walk.offset * walk.step) % Len(walk.pool)) + 1]
     IN  IF AtCap(ToSet(page) \cup ToSet(tier), i)
         THEN deferred' = Append(deferred, i) /\ UNCHANGED tier
         ELSE tier' = Append(tier, i) /\ UNCHANGED deferred
  /\ walk' = [walk EXCEPT !.offset = @ + 1]
  /\ UNCHANGED <<language, unseen, target, share, page, anchorVars>>

\* The items that waited fill the page up.
Fill(items) ==
  LET left == AsRanked({k \in DOMAIN items : items[k] \notin ToSet(tier)})
  IN  [k \in DOMAIN left |-> items[left[k]]]

FinishPage ==
  /\ walk.phase = "walk" /\ (walk.offset = Len(walk.pool) \/ Len(tier) = walk.wanted)
  /\ page' = page \o SubSeq(tier \o Fill(deferred), 1, Min({walk.wanted, Len(tier) + Len(Fill(deferred))}))
  /\ walk' = [walk EXCEPT !.phase = "served"]
  /\ UNCHANGED <<language, unseen, target, share, tier, deferred, anchorVars>>

ShapeNext == Split \/ Visit \/ FinishPage

\* The served page has exactly the size asked for or all there is, nothing
\* twice and nothing already seen; it starts with the best of the pool; and
\* it holds more of one language than the cap only where every candidate
\* left out has a language that is full as well: the random walk must reach
\* the whole pool, and the items it put off must not be forgotten.
PageHonest ==
  walk.phase = "served" =>
    /\ Len(page) = SizeOfPage /\ IsInjective(page) /\ ToSet(page) \subseteq unseen
    /\ SubSeq(page, 1, SizeOfPage - walk.wanted) = SubSeq(Ordered, 1, SizeOfPage - walk.wanted)
    /\ (\E l \in Languages : Cardinality(Speaking(ToSet(page), l)) > MaxSameLanguage)
         => \A i \in unseen \ ToSet(page) : AtCap(ToSet(page), i)

---------------------------------------------------------------------------
(* _freshness_reference(): the clock is read before the lock is taken *)

Hour(t) == t \div 2

Tick == /\ clock < MaxAnchorTime /\ clock' = clock + 1
        /\ UNCHANGED <<shapeVars, anchors, reading, pledges, answer>>

AskPage(g) ==
  /\ Len(reading) < 2
  /\ reading' = Append(reading, [generation |-> g, now |-> clock])
  /\ UNCHANGED <<shapeVars, clock, anchors, pledges, answer>>

\* The head of the FIFO leaves while it has expired.
LiveFrom(now) ==
  LET live == {k \in DOMAIN anchors : anchors[k].expires > now}
  IN  IF live = {} THEN <<>> ELSE SubSeq(anchors, Min(live), Len(anchors))

Popped(fifo, g) ==
  LET held == {k \in DOMAIN fifo : fifo[k].generation = g}
  IN  IF held = {} THEN fifo ELSE RemoveAt(fifo, Min(held))

Evicted(fifo) == SubSeq(fifo, Max({1, Len(fifo) - AnchorCapacity + 1}), Len(fifo))

\* What a generation was promised ends when its time has passed at somebody's
\* reading of the clock, or when as many anchors as the FIFO holds are newer.
Promised(g, now) == pledges[g].expires > now /\ pledges[g].newer < AnchorCapacity
Later(g, now, new) ==
  IF ~Promised(g, now) THEN [pledges[g] EXCEPT !.expires = 0]
  ELSE IF new THEN [pledges[g] EXCEPT !.newer = @ + 1] ELSE pledges[g]

\* The requests get the lock in any order.
Anchor(k) ==
  /\ k \in DOMAIN reading
  /\ LET ask == reading[k]
         g == ask.generation
         kept == LiveFrom(ask.now)
         hit == {e \in ToSet(kept) : e.generation = g /\ e.expires > ask.now}
         fresh == [generation |-> g, expires |-> ask.now + AnchorTicks, hour |-> Hour(ask.now)]
         others == Popped(kept, g)
         new == hit = {}
     IN  /\ anchors' = IF new THEN Evicted(Append(others, fresh)) ELSE kept
         /\ answer' = [hour |-> IF new THEN fresh.hour ELSE (CHOOSE e \in hit : TRUE).hour,
                       promised |-> IF Promised(g, ask.now) THEN {pledges[g].hour} ELSE {}]
         /\ pledges' = [h \in Generations |->
                          IF h = g /\ new THEN [hour |-> fresh.hour, expires |-> fresh.expires, newer |-> 0]
                          ELSE Later(h, ask.now, new)]
  /\ reading' = RemoveAt(reading, k)
  /\ UNCHANGED <<shapeVars, clock>>

AnchorNext == Tick \/ (\E g \in Generations : AskPage(g)) \/ (\E k \in 1..2 : Anchor(k))

FeedSpec == FeedInit /\ [][ShapeNext \/ AnchorNext]_feedVars

\* A retry of a generation is scored at the hour it was first scored at, also
\* when it crosses into the next hour and whichever request gets the lock
\* first, unless its anchor expired or the FIFO took as many newer ones as it
\* holds.
RetriesAnchored == answer.promised \subseteq {answer.hour}

\* A page is what was asked for, nothing twice and nothing seen, and a retry
\* is scored at the hour of its first try.
PageServed == PageHonest /\ RetriesAnchored
=============================================================================
