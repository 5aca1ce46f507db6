---------------------------- MODULE ReadmeSections ----------------------------
(***************************************************************************)
(* The README as the encoder sees it: its lines divided into sections with *)
(* a class each (fences, headings of both kinds, inheritance, omitted      *)
(* subtrees), and a section's text cut into chunks the model can take.  A  *)
(* line is its kind; a heading's or a paragraph's own class stands for the *)
(* words its title is searched for.                                        *)
(***************************************************************************)
EXTENDS Integers, SequencesExt, FiniteSetsExt

CONSTANTS Lines,          \* the kinds of line a README may hold
          MaxLines,       \* bound: lines of a README
          Tokens,         \* bound: the tokens of a section's text
          SequenceLimit, Special, Overlap,
          ChunkLimits     \* the chunks left to a section's class, of which one is taken

Classes == {"purpose", "neutral", "setup", "omit"}
Kind(kind, depth, own) == [kind |-> kind, depth |-> depth, own |-> own]

ASSUME ReadmeAssumption ==
  /\ \A l \in Lines :
       /\ l.kind \in {"heading", "underline", "text", "block", "blank", "fence", "reference"}
       /\ l.depth \in Nat
  /\ ({Tokens, SequenceLimit} \cup ChunkLimits) \subseteq Nat \ {0} /\ {MaxLines, Special, Overlap} \subseteq Nat
  /\ Overlap < SequenceLimit - Special

VARIABLES
  readme,     \* the lines read so far
  stack,      \* the enclosing headings: depth and class
  class, body, paragraph, fence,  \* the section being read: line numbers
  sections,   \* the sections that ended: class and line numbers
  headings,   \* history: where each heading began, its depth and own class
  text,       \* the tokens to cut, and those that grow when cut before them
  chunk,      \* the next start, whether it ended, the chunks left
  chunks      \* the chunks cut: from and to

sectionVars == <<readme, stack, class, body, paragraph, fence, sections, headings>>
chunkVars == <<text, chunk, chunks>>
readmeVars == <<sectionVars, chunkVars>>

ReadmeInit ==
  /\ readme = <<>> /\ stack = <<>> /\ class = "neutral" /\ body = {} /\ paragraph = {} /\ fence = "none"
  /\ sections = <<>> /\ headings = {}
  /\ \E size \in 1..Tokens, limit \in ChunkLimits :
       /\ text \in {[size |-> size, grow |-> g] : g \in SUBSET (1..size)}
       /\ chunk = [start |-> 1, ended |-> FALSE, left |-> limit]
  /\ chunks = <<>>

---------------------------------------------------------------------------
(* _sections() *)

\* flush(): a section ends with the lines it has.
Flushed(lines) == IF class # "omit" /\ lines # {} THEN Append(sections, [class |-> class, lines |-> lines]) ELSE sections

\* The headings that still enclose one of this depth, the others popped.
Enclosing(depth) == SubSeq(stack, 1, Max({0} \cup {k \in DOMAIN stack : stack[k].depth < depth}))

\* begin_section(): an omitted section omits all below it; a class of its own
\* counts before an inherited one.
BeginSection(depth, own, before, title) ==
  LET outer == Enclosing(depth)
      inherited == IF outer = <<>> THEN "neutral" ELSE Last(outer).class
      next == IF "omit" \in {inherited, own} THEN "omit" ELSE IF own = "none" THEN inherited ELSE own
  IN  /\ sections' = Flushed(before)
      /\ class' = next /\ stack' = Append(outer, [depth |-> depth, class |-> next])
      /\ body' = (IF next = "omit" THEN {} ELSE title) /\ paragraph' = {}
      /\ headings' = headings \cup {[at |-> Min(title), depth |-> depth, own |-> own]}

\* The class a title of several lines has: what ends it is omitted only when
\* it is the whole title, and a class named by any line counts.
Titled(lines) ==
  LET own == {readme[i].own : i \in lines}
  IN  IF own = {"omit"} THEN "omit" ELSE IF "setup" \in own THEN "setup"
      ELSE IF "purpose" \in own THEN "purpose" ELSE "none"

Here == Len(readme) + 1

Committed(more) == body' = (body \cup paragraph) \cup more /\ paragraph' = {}

InsideFence(line) ==
  /\ fence # "none"
  /\ fence' = IF line.kind = "fence" /\ line.own = fence THEN "none" ELSE fence
  /\ UNCHANGED <<stack, class, body, paragraph, sections, headings>>

OpenFence(line) ==
  /\ fence = "none" /\ line.kind = "fence"
  /\ fence' = line.own /\ Committed({})
  /\ UNCHANGED <<stack, class, sections, headings>>

\* A heading commits the paragraph before it to the section that ends.
Heading(line) ==
  /\ fence = "none" /\ line.kind = "heading"
  /\ BeginSection(line.depth, line.own, body \cup paragraph, {Here})
  /\ UNCHANGED fence

\* A line of = or - under a paragraph makes all of it a heading.  Without one
\* at least three - are a break; any other is prose and begins a paragraph.
Underline(line) ==
  /\ fence = "none" /\ line.kind = "underline"
  /\ IF paragraph # {}
     THEN BeginSection(line.depth, Titled(paragraph), body, paragraph)
     ELSE /\ \/ line.depth = 2 /\ Committed({})
             \/ paragraph' = {Here} /\ UNCHANGED body
          /\ UNCHANGED <<stack, class, sections, headings>>
  /\ UNCHANGED fence

\* A leading definition is skipped; within a paragraph it is prose.
Reference(line) ==
  /\ fence = "none" /\ line.kind = "reference"
  /\ paragraph' = IF paragraph = {} THEN {} ELSE paragraph \cup {Here}
  /\ UNCHANGED <<stack, class, body, fence, sections, headings>>

Prose(line) ==
  /\ fence = "none" /\ line.kind \in {"text", "block", "blank"}
  /\ IF line.kind = "text" THEN paragraph' = paragraph \cup {Here} /\ UNCHANGED body
     ELSE Committed(IF line.kind = "block" THEN {Here} ELSE {})
  /\ UNCHANGED <<stack, class, fence, sections, headings>>

ReadLine ==
  /\ Len(readme) < MaxLines
  /\ \E line \in Lines :
       /\ InsideFence(line) \/ OpenFence(line) \/ Heading(line) \/ Underline(line) \/ Reference(line) \/ Prose(line)
       /\ readme' = Append(readme, line)
  /\ UNCHANGED chunkVars

\* What the sections are should the README end here.
Ended == Flushed(body \cup paragraph)

---------------------------------------------------------------------------
(* token_chunks() *)

\* The tokens of a slice, tokenized anew: a cut may break a token in two.
Size(from, to) == to - from + 1 + Special + (IF from \in text.grow THEN 1 ELSE 0)
Fits(from, to) == Size(from, to) <= SequenceLimit

Ending(from) ==
  {to \in from..Min({from + SequenceLimit - Special - 1, text.size}) : Fits(from, to)}

Advance(from, to) == Max({from + 1, to + 1 - Overlap})

Cut ==
  /\ ~chunk.ended /\ chunk.start <= text.size
  /\ IF Ending(chunk.start) = {} THEN chunk' = [start |-> chunk.start, ended |-> TRUE, left |-> -1] /\ UNCHANGED chunks
     ELSE LET to == Max(Ending(chunk.start))
          IN  /\ chunks' = Append(chunks, [from |-> chunk.start, to |-> to])
              /\ chunk' = [start |-> Advance(chunk.start, to), left |-> chunk.left - 1,
                           ended |-> chunk.left = 1 \/ to = text.size]
  /\ UNCHANGED <<sectionVars, text>>

ReadmeNext == ReadLine \/ Cut
ReadmeSpec == ReadmeInit /\ [][ReadmeNext]_readmeVars

---------------------------------------------------------------------------
(* Properties *)

\* The headings a line is under, itself if it is one.
Above(i) ==
  {h \in headings : h.at <= i /\ ~\E g \in headings : g.at > h.at /\ g.at <= i /\ g.depth <= h.depth}

\* The class that headings give what is under all of them: omitted if one is,
\* else the class of the innermost that has one.
ClassUnder(hs) ==
  LET owning == {h \in hs : h.own # "none"}
  IN  IF \E h \in hs : h.own = "omit" THEN "omit"
      ELSE IF owning = {} THEN "neutral"
      ELSE (CHOOSE h \in owning : \A g \in owning : g.at <= h.at).own

\* The class the document's outline gives a line.
Outlined(i) == ClassUnder(Above(i))

\* Each line of a section has the class the outline gives it: nothing under
\* an omitted heading is embedded however deep it is, and the next heading of
\* that depth is heard again.  No line is in two sections.
SectionsOutlined ==
  /\ \A k \in DOMAIN Ended : \A i \in Ended[k].lines : Outlined(i) = Ended[k].class
  /\ \A j, k \in DOMAIN Ended : j # k => Ended[j].lines \cap Ended[k].lines = {}

\* The chunks fit the model as it tokenizes them, follow one another without
\* a gap, never start where one did before, and reach the end unless the
\* class has no chunk left.
ChunksCover ==
  /\ \A k \in DOMAIN chunks :
       /\ Fits(chunks[k].from, chunks[k].to) /\ chunks[k].from <= chunks[k].to
       /\ k > 1 => chunks[k - 1].from < chunks[k].from /\ chunks[k].from <= chunks[k - 1].to + 1
  /\ chunk.ended /\ chunk.left > 0 => chunks[1].from = 1 /\ Last(chunks).to = text.size
=============================================================================
