------------------------- MODULE ModelJournalProofs -------------------------
(***************************************************************************)
(* Proofs about the model-operation journal of one user: what is committed *)
(* can be rebuilt, the committed rows are the abstract log, a withdrawn    *)
(* profile is not learned from any more, and sealed sessions stay sealed.  *)
(*                                                                         *)
(* Nothing in the argument needs the user lock.  What carries it: every    *)
(* row anywhere - committed, acted on, or still a worker's draft - is what *)
(* its predecessor and its pinned input lead to (RowKept), inputs and      *)
(* withdrawals never change once they are there, a draft extends what its  *)
(* worker read and is committed only onto just that, and every row below a *)
(* draft is in the journal and, where it was not applied, dead-lettered.   *)
(*                                                                         *)
(* The point may be lost.  While a basis exists the guard is raised before *)
(* anybody sees it, so no worker builds on a missing point then.  Before   *)
(* that only withdrawals are committed, and a lost one is written again    *)
(* just as it was: its row is a function of the withdrawal and of the rows *)
(* below it.  So what was acted on and the point agree wherever both have  *)
(* a row (ActedKept), and the longer of the two is the log (TipIs).        *)
(*                                                                         *)
(* What a committed state holds (StateOk) needs no more than that its row  *)
(* is what the reducer made of the state below: each operation of the      *)
(* reducer keeps ledgers, clocks and anchors, and takes a sealed session   *)
(* as sealed, anew or gone (Carried).                                      *)
(***************************************************************************)
EXTENDS ModelJournal, TLAPS, WellFoundedInduction, FiniteSetTheorems


Ids == {o.id : o \in Ops}
Kinds == {"applied", "rejected", "withdrawn"}
IsSeq(h) == h \in Seq({h[i] : i \in DOMAIN h})

(* What the proofs need to know of a reduced state. *)
StateTyped(st) == {"op", "ready"} \subseteq DOMAIN st /\ st.ready \in BOOLEAN

(* What row n of head h was reduced from. *)
Below(h, n) ==
  IF n = 1 THEN [head |-> <<>>, state |-> Prefix(h[n].op.at)]
  ELSE [head |-> SubSeq(h, 1, n - 1), state |-> h[n - 1].state]

(* A row that records a withdrawal, and one an operation left behind with   *)
(* the input pinned for its version.                                       *)
WithdrawnRow(h, n, wds) ==
  LET o == h[n].op
      st == Below(h, n).state
  IN /\ o \in wds /\ Verdict(st, o) = "ok"
     /\ h[n] = Outcome(o, "withdrawn", "withdrawn", 0, Reduced(st, o))
LearnedRow(h, n, pins) ==
  /\ \E e \in Ops : /\ e.id = h[n].op.id /\ h[n].op = Resolved(e, pins[e.version])
                    /\ pins[e.version] # NoPin
  /\ h[n] \in Transitions(Below(h, n), h[n].op)
  /\ h[n].state.ready
RowKept(h, n, pins, wds) ==
  /\ h[n].op.version = n /\ h[n].op.id \in Ids /\ h[n].disposition \in Kinds
  /\ StateTyped(h[n].state) /\ h[n].state.op = n
  /\ \A m \in 1..n : h[m].state.ready => h[n].state.ready
  /\ h[n].disposition = "withdrawn" <=> h[n].op.kind = "withdrawal"
  /\ IF h[n].op.kind = "withdrawal" THEN WithdrawnRow(h, n, wds) ELSE LearnedRow(h, n, pins)
HeadKept(h, pins, wds) == IsSeq(h) /\ \A n \in 1..Len(h) : RowKept(h, n, pins, wds)

(* The first m rows of h are in the journal, with the copies they need. *)
Recorded(h, m, prep, dd) ==
  \A n \in 1..m : /\ SubSeq(h, 1, n) \in prep
                  /\ h[n].disposition # "applied" => SubSeq(h, 1, n) \in dd

(* The shape of the state, and who may be in the stream. *)
PCs == {"idle", "look", "lookup", "pin", "fetch", "reserve", "copy", "refund", "read", "attest",
        "prepare", "bury", "check", "commit", "confirm", "settle", "ack"}
Fields == {"pc", "entry", "before", "sample", "want", "head"}

Typed ==
  /\ identities \subseteq Ops /\ withdrawn \subseteq Withdrawals /\ stream \subseteq Entries
  /\ asked \in [Producers -> Entries \cup {NoEntry}]
  /\ frozen \in [Versions -> Vectors \cup {NoPin}] /\ pinned \in [Versions -> Vectors \cup {NoPin}]
  /\ DOMAIN job = Workers
  /\ \A w \in Workers : DOMAIN job[w] = Fields /\ job[w].pc \in PCs

TransportKept ==
  /\ \A o, p \in identities : o.version = p.version => o = p
  /\ \A x, y \in withdrawn : x.version = y.version => x = y
  /\ \A x \in withdrawn : Of(x) \in identities
  /\ \A e \in stream : Of(e) \in identities /\ (e.kind = "withdrawal" => e \in withdrawn)

(* What left the stream was acted on. *)
SettledFor(e) == e.version <= Len(acted) /\ acted[e.version].op.id = e.id
AckedKept ==
  /\ \A x \in withdrawn \ stream : SettledFor(x)
  /\ \A o \in identities : (\A e \in stream : e.id # o.id) => SettledFor(o)

(* The point, and the rows somebody acted on. *)
PointKept ==
  /\ HeadKept(point.head, pinned, withdrawn)
  /\ Recorded(point.head, Len(point.head), prepared, dead)
  /\ StateTyped(point.state) /\ point.state.op = Len(point.head)
  /\ point # NoPoint => Len(point.head) > 0 /\ point.state = point.head[Len(point.head)].state
  /\ guard = "initialized" => point = NoPoint \/ Ready

ActedKept ==
  /\ HeadKept(acted, pinned, withdrawn) /\ Recorded(acted, Len(acted), prepared, dead)
  /\ Len(acted) > 0 /\ acted[Len(acted)].state.ready => guard = "initialized"
  /\ \A i \in 1..Len(acted) : i <= Len(point.head) => acted[i] = point.head[i]
  /\ Len(point.head) < Len(acted) => ~Ready

(* Workers, by how far they are. *)
Uncommitted(w) == job[w].pc \in {"prepare", "bury", "check", "commit"}
Writing(w) == Uncommitted(w) \/ At(w, "confirm")
Finished(w) == At(w, "settle") \/ At(w, "ack")
Pinning(w) == job[w].pc \in {"lookup", "pin", "fetch", "reserve", "copy", "refund", "read"}

(* The entry was admitted; a profile is attested only once withdrawn. *)
EntryKept(w) ==
  LET e == job[w].entry
  IN /\ e \in Entries /\ Of(e) \in identities
     /\ e.kind = "withdrawal" => e \in withdrawn
     /\ At(w, "attest") => e.kind = "withdrawal" \/ Withdrawing(e) # {}
     /\ Pinning(w) \/ At(w, "look") => e \in Ops

(* An input is copied only from what was frozen, and read as it is pinned. *)
PinKept(w) ==
  LET v == job[w].entry.version
  IN /\ At(w, "fetch") => job[w].sample \in Vectors \cup {NoPin}
     /\ At(w, "reserve") => job[w].want \in Vectors
     /\ At(w, "copy") \/ At(w, "refund") => job[w].sample \in Vectors
     /\ At(w, "refund") => pinned[v] = job[w].sample
     /\ At(w, "read") => job[w].want \in Vectors /\ pinned[v] = job[w].want

(* The draft ends in the outcome of the entry... *)
TopKept(w) ==
  /\ HeadKept(job[w].head, pinned, withdrawn) /\ Len(job[w].head) = job[w].entry.version
  /\ Top(w).op.id = job[w].entry.id
  /\ job[w].entry.kind = "withdrawal" => Withdraws(w)

(* ...is built on what was read, which the point has not fallen behind     *)
(* unless it was lost before anybody had a basis...                        *)
DraftKept(w) ==
  LET h == job[w].head
      b == job[w].before
  IN /\ Recorded(h, Len(h) - 1, prepared, dead)
     /\ ~At(w, "prepare") => h \in prepared
     /\ At(w, "check") \/ At(w, "commit") => Top(w).disposition = "applied" \/ h \in dead
     /\ IsSeq(b.head) /\ Len(h) = Len(b.head) + 1 /\ Len(b.head) <= Len(point.head)
     /\ \A i \in 1..Len(b.head) : h[i] = b.head[i]
     /\ b # NoPoint => point # NoPoint
     /\ point = b /\ ~Withdraws(w) => Len(acted) < Len(h)
     /\ point = NoPoint => guard # "initialized"

(* ...and who acknowledges found the entry committed. *)
DoneKept(w) ==
  LET e == job[w].entry
  IN /\ point # NoPoint /\ e.version <= Len(point.head) /\ point.head[e.version].op.id = e.id
     /\ point.head[e.version].state.ready => guard = "initialized"

JobKept(w) ==
  /\ ~At(w, "idle") => EntryKept(w)
  /\ PinKept(w)
  /\ Writing(w) => TopKept(w)
  /\ Uncommitted(w) => DraftKept(w)
  /\ Finished(w) => DoneKept(w)

JobsKept == \A w \in Workers : JobKept(w)
Inv == Typed /\ TransportKept /\ AckedKept /\ PointKept /\ ActedKept /\ JobsKept

----------------------------------------------------------------------------
(* Sequences. *)
LEMMA SeqTyped ==
  ASSUME NEW h, IsSeq(h)
  PROVE  Len(h) \in Nat /\ DOMAIN h = 1..Len(h)
BY DEF IsSeq

LEMMA EmptyTyped == IsSeq(<<>>) /\ Len(<<>>) = 0
BY DEF IsSeq

LEMMA AnySeq == ASSUME NEW R, NEW s \in Seq(R) PROVE IsSeq(s)
<1>. DEFINE S == {s[i] : i \in DOMAIN s}
<1>1. Len(s) \in Nat /\ DOMAIN s = 1..Len(s) /\ s = [i \in 1..Len(s) |-> s[i]]
  OBVIOUS
<1>2. \A i \in 1..Len(s) : s[i] \in S
  BY <1>1
<1>3. s \in Seq(S)
  <2>. HIDE DEF S
  <2>. QED BY <1>1, <1>2
<1>. QED BY <1>3 DEF IsSeq

LEMMA AppendTyped ==
  ASSUME NEW h, NEW r, IsSeq(h)
  PROVE  /\ IsSeq(Append(h, r)) /\ Len(Append(h, r)) = Len(h) + 1
         /\ \A i \in 1..Len(h) : Append(h, r)[i] = h[i]
         /\ Append(h, r)[Len(h) + 1] = r
<1>. DEFINE R == {h[i] : i \in DOMAIN h} \cup {r}
<1>1. h \in Seq(R) /\ Len(h) \in Nat /\ DOMAIN h = 1..Len(h)
  BY DEF IsSeq
<1>2. /\ Append(h, r) \in Seq(R) /\ Len(Append(h, r)) = Len(h) + 1
      /\ \A i \in 1..Len(h) : Append(h, r)[i] = h[i]
      /\ Append(h, r)[Len(h) + 1] = r
  BY <1>1
<1>. HIDE DEF R
<1>. QED BY <1>2, AnySeq

LEMMA SubSeqTyped ==
  ASSUME NEW h, IsSeq(h), NEW n \in 0..Len(h)
  PROVE  /\ IsSeq(SubSeq(h, 1, n)) /\ Len(SubSeq(h, 1, n)) = n
         /\ \A i \in 1..n : SubSeq(h, 1, n)[i] = h[i]
<1>. DEFINE R == {h[i] : i \in DOMAIN h}
<1>1. h \in Seq(R) /\ Len(h) \in Nat /\ DOMAIN h = 1..Len(h)
  BY DEF IsSeq
<1>2. /\ SubSeq(h, 1, n) \in Seq(R) /\ Len(SubSeq(h, 1, n)) = n
      /\ \A i \in 1..n : SubSeq(h, 1, n)[i] = h[i]
  BY <1>1
<1>. HIDE DEF R
<1>. QED BY <1>2, AnySeq

LEMMA SameSeq ==
  ASSUME NEW g, NEW h, IsSeq(g), IsSeq(h), Len(g) = Len(h), \A i \in 1..Len(g) : g[i] = h[i]
  PROVE  g = h
<1>1. /\ Len(g) \in Nat /\ DOMAIN g = 1..Len(g) /\ g = [i \in DOMAIN g |-> g[i]]
      /\ DOMAIN h = 1..Len(h) /\ h = [i \in DOMAIN h |-> h[i]]
  <2>1. \A k : IsSeq(k) => Len(k) \in Nat /\ DOMAIN k = 1..Len(k) /\ k = [i \in DOMAIN k |-> k[i]]
    BY DEF IsSeq
  <2>. QED BY <2>1
<1>2. DOMAIN g = DOMAIN h /\ \A i \in DOMAIN g : g[i] = h[i]
  BY <1>1
<1>3. [i \in DOMAIN g |-> g[i]] = [i \in DOMAIN h |-> h[i]]
  BY <1>2, Zenon
<1>. QED BY <1>1, <1>3, Zenon

LEMMA SameStart ==
  ASSUME NEW g, NEW h, IsSeq(g), IsSeq(h), NEW n \in Nat, n <= Len(g), n <= Len(h),
         \A i \in 1..n : g[i] = h[i]
  PROVE  SubSeq(g, 1, n) = SubSeq(h, 1, n)
<1>1. n \in 0..Len(g) /\ n \in 0..Len(h)
  BY SeqTyped
<1>. QED BY <1>1, SubSeqTyped, SameSeq

LEMMA WholeSeq == ASSUME NEW h, IsSeq(h) PROVE SubSeq(h, 1, Len(h)) = h
<1>1. Len(h) \in 0..Len(h)
  BY SeqTyped
<1>. QED BY <1>1, SubSeqTyped, SameSeq

LEMMA PrefixOf ==
  ASSUME NEW g, NEW h, IsSeq(g), IsSeq(h)
  PROVE  IsPrefix(g, h) <=> Len(g) <= Len(h) /\ \A i \in 1..Len(g) : g[i] = h[i]
<1>1. Len(g) \in 0..Len(g) /\ Len(g) \in Nat /\ Len(h) \in Nat
  BY SeqTyped
<1>2. CASE Len(g) <= Len(h)
  <2>1. Len(g) \in 0..Len(h)
    BY <1>1, <1>2
  <2>. QED BY <1>1, <2>1, <1>2, SubSeqTyped, SameStart DEF IsPrefix
<1>. QED BY <1>2 DEF IsPrefix

----------------------------------------------------------------------------
(* What the reducer gives back. *)

LEMMA ReducedState ==
  ASSUME NEW st, NEW o, StateTyped(st), Verdict(st, o) = "ok"
  PROVE  /\ o.version = st.op + 1
         /\ StateTyped(Reduced(st, o)) /\ Reduced(st, o).op = o.version
         /\ st.ready => Reduced(st, o).ready
         /\ ~st.ready => Reduced(st, o).ready = (o.kind = "profile")
         /\ ~st.ready => o.kind \in {"profile", "withdrawal"}
<1>. DEFINE s == Stepped(st, o)
<1>1. o.version = st.op + 1 /\ (~st.ready => o.kind \in {"profile", "withdrawal"})
  BY DEF Verdict, StateTyped
<1>2. StateTyped(s) /\ s.op = o.version /\ s.ready = st.ready
  BY DEF Stepped, StateTyped
<1>3. CASE ~st.ready /\ o.kind = "profile"
  <2>1. PICK t : t = Reduced(st, o)
    OBVIOUS
  <2>2. t = [ready |-> TRUE, op |-> o.version, fb |-> 0, clock |-> s.clock, last |-> o.id,
             base |-> [content |-> o.content, source |-> o.source], long |-> {},
             sessions |-> [x \in {} |-> NewSession(1, 0, 0, "none")]]
    BY <1>3, <2>1 DEF Reduced
  <2>3. t.ready = TRUE /\ t.op = o.version /\ DOMAIN t = {"ready", "op", "fb", "clock", "last", "base", "long", "sessions"}
    BY <2>2
  <2>. QED BY <2>1, <2>3, <1>1, <1>3 DEF StateTyped
<1>4. CASE ~st.ready /\ o.kind # "profile"
  <2>1. Reduced(st, o) = [s EXCEPT !.clock = Later(s.clock, o.revoked)]
    BY <1>4, <1>1 DEF Reduced
  <2>. HIDE DEF s
  <2>. QED BY <2>1, <1>1, <1>2, <1>4 DEF StateTyped
<1>5. CASE st.ready
  <2>1. \E a, b, c, d : \/ Reduced(st, o) = [s EXCEPT !.clock = a, !.sessions = b]
                        \/ Reduced(st, o) = [s EXCEPT !.base = a, !.sessions = b]
                        \/ Reduced(st, o) = [s EXCEPT !.fb = a, !.long = b, !.sessions = c]
                        \/ Reduced(st, o) = [s EXCEPT !.sessions = a]
    <3>1. CASE o.kind = "withdrawal"
      <4>1. Reduced(st, o) = [s EXCEPT !.clock = Later(s.clock, o.revoked), !.sessions = Sessions(st, o)]
        BY <1>5, <3>1 DEF Reduced
      <4>. QED BY <4>1
    <3>2. CASE o.kind = "profile"
      <4>1. Reduced(st, o) = [s EXCEPT !.base = [content |-> o.content, source |-> o.source],
                                       !.sessions = Sessions(st, o)]
        BY <1>5, <3>2 DEF Reduced
      <4>. QED BY <4>1
    <3>3. CASE o.kind = "feedback"
      <4>1. Reduced(st, o) = [s EXCEPT !.fb = o.fb, !.long = LongLearned(st.long, o, Now(st, o)),
                                       !.sessions = Sessions(st, o)]
        BY <1>5, <3>3 DEF Reduced
      <4>. QED BY <4>1
    <3>4. CASE o.kind \notin {"withdrawal", "profile", "feedback"}
      <4>1. Reduced(st, o) = [s EXCEPT !.sessions = Sessions(st, o)]
        BY <1>5, <3>4 DEF Reduced
      <4>. QED BY <4>1
    <3>. QED BY <3>1, <3>2, <3>3, <3>4
  <2>. HIDE DEF s
  <2>. QED BY <2>1, <1>1, <1>2, <1>5 DEF StateTyped
<1>. QED BY <1>3, <1>4, <1>5 DEF StateTyped

LEMMA PassedState ==
  ASSUME NEW st, NEW o, StateTyped(st), Rejectable(st, o)
  PROVE  /\ o.version = st.op + 1
         /\ StateTyped(Passed(st, o)) /\ Passed(st, o).op = o.version
         /\ Passed(st, o).ready = st.ready
BY DEF Passed, Stepped, Rejectable, StateTyped

LEMMA TransitionRow ==
  ASSUME NEW b, NEW o, NEW row \in Transitions(b, o), StateTyped(b.state), o.kind # "withdrawal"
  PROVE  /\ row.op = o /\ row.disposition \in {"applied", "rejected"}
         /\ o.version = b.state.op + 1
         /\ StateTyped(row.state) /\ row.state.op = o.version /\ row.state.ready
<1>1. CASE Verdict(b.state, o) = "ok"
  <2>1. row = Outcome(o, "applied", "none", 0, Reduced(b.state, o))
    BY <1>1 DEF Transitions
  <2>2. Reduced(b.state, o).ready
    BY <1>1, ReducedState DEF StateTyped
  <2>. QED BY <2>1, <2>2, <1>1, ReducedState DEF Outcome
<1>2. CASE Verdict(b.state, o) # "ok"
  <2>1. /\ Verdict(b.state, o) \in {"overflow", "epoch"} /\ Rejectable(b.state, o)
        /\ \E error, cause : row = Outcome(o, "rejected", error, cause, Passed(b.state, o))
    <3>1. CASE Verdict(b.state, o) = "overflow"
      BY <1>2, <3>1 DEF Transitions
    <3>2. CASE Verdict(b.state, o) # "overflow"
      BY <1>2, <3>2 DEF Transitions
    <3>. QED BY <3>1, <3>2
  <2>2. b.state.ready
    BY <2>1 DEF Verdict
  <2>. QED BY <2>1, <2>2, PassedState DEF Outcome
<1>. QED BY <1>1, <1>2

----------------------------------------------------------------------------
(* Rows and heads. *)

LEMMA RowSame ==
  ASSUME NEW g, NEW h, IsSeq(g), IsSeq(h), NEW n \in Nat \ {0}, n <= Len(g), n <= Len(h),
         \A i \in 1..n : g[i] = h[i], NEW pins, NEW wds, RowKept(g, n, pins, wds)
  PROVE  RowKept(h, n, pins, wds)
<1>1. Below(g, n) = Below(h, n)
  <2>1. g[n] = h[n]
    OBVIOUS
  <2>2. CASE n = 1
    BY <2>1, <2>2 DEF Below
  <2>3. CASE n # 1
    <3>1. n - 1 \in Nat /\ n - 1 \in 1..n /\ n - 1 <= Len(g) /\ n - 1 <= Len(h)
      BY <2>3, SeqTyped
    <3>2. SubSeq(g, 1, n - 1) = SubSeq(h, 1, n - 1)
      BY <3>1, SameStart
    <3>. QED BY <2>3, <3>1, <3>2 DEF Below
  <2>. QED BY <2>2, <2>3
<1>2. g[n] = h[n]
  OBVIOUS
<1>3. WithdrawnRow(g, n, wds) => WithdrawnRow(h, n, wds)
  BY <1>1, <1>2 DEF WithdrawnRow
<1>4. LearnedRow(g, n, pins) => LearnedRow(h, n, pins)
  BY <1>1, <1>2 DEF LearnedRow
<1>. QED BY <1>2, <1>3, <1>4 DEF RowKept

(* Pins and withdrawals are never taken back. *)
Keep(pins, after) == \A v \in Versions : pins[v] # NoPin => after[v] = pins[v]

LEMMA HeadStays ==
  ASSUME NEW h, NEW pins, NEW wds, NEW p2, NEW w2, Keep(pins, p2), wds \subseteq w2,
         HeadKept(h, pins, wds)
  PROVE  HeadKept(h, p2, w2)
<1>1. \A n \in 1..Len(h) : WithdrawnRow(h, n, wds) => WithdrawnRow(h, n, w2)
  BY DEF WithdrawnRow
<1>2. \A n \in 1..Len(h) : LearnedRow(h, n, pins) => LearnedRow(h, n, p2)
  BY DEF LearnedRow, Keep, Versions
<1>. QED BY <1>1, <1>2 DEF HeadKept, RowKept

LEMMA PrefixKept ==
  ASSUME NEW h, NEW pins, NEW wds, HeadKept(h, pins, wds), NEW n \in 0..Len(h)
  PROVE  HeadKept(SubSeq(h, 1, n), pins, wds)
<1>. DEFINE g == SubSeq(h, 1, n)
<1>1. IsSeq(h) /\ IsSeq(g) /\ Len(g) = n /\ n <= Len(h) /\ Len(h) \in Nat /\ \A i \in 1..n : g[i] = h[i]
  BY SubSeqTyped, SeqTyped DEF HeadKept
<1>. HIDE DEF g
<1>2. ASSUME NEW m \in 1..n PROVE RowKept(g, m, pins, wds)
  <2>1. RowKept(h, m, pins, wds) /\ m \in Nat \ {0} /\ m <= Len(h) /\ m <= Len(g)
    BY <1>1 DEF HeadKept
  <2>2. \A i \in 1..m : h[i] = g[i]
    BY <1>1
  <2>. QED BY <1>1, <2>1, <2>2, RowSame
<1>3. HeadKept(g, pins, wds)
  BY <1>1, <1>2 DEF HeadKept
<1>. QED BY <1>3 DEF g

LEMMA RecordedSame ==
  ASSUME NEW g, NEW h, IsSeq(g), IsSeq(h), NEW n \in Nat, n <= Len(g), n <= Len(h),
         \A i \in 1..n : g[i] = h[i], NEW prep, NEW dd, Recorded(g, n, prep, dd)
  PROVE  Recorded(h, n, prep, dd)
<1>1. ASSUME NEW m \in 1..n PROVE SubSeq(g, 1, m) = SubSeq(h, 1, m)
  <2>1. m \in Nat /\ m <= Len(g) /\ m <= Len(h) /\ \A i \in 1..m : g[i] = h[i]
    BY SeqTyped
  <2>. QED BY <2>1, SameStart
<1>. QED BY <1>1 DEF Recorded

LEMMA AppendKept ==
  ASSUME NEW h, NEW r, NEW pins, NEW wds, HeadKept(h, pins, wds),
         RowKept(Append(h, r), Len(h) + 1, pins, wds)
  PROVE  HeadKept(Append(h, r), pins, wds)
<1>. DEFINE g == Append(h, r)
<1>1. IsSeq(h) /\ IsSeq(g) /\ Len(g) = Len(h) + 1 /\ Len(h) \in Nat /\ \A i \in 1..Len(h) : g[i] = h[i]
  BY AppendTyped, SeqTyped DEF HeadKept
<1>2. RowKept(g, Len(h) + 1, pins, wds)
  OBVIOUS
<1>. HIDE DEF g
<1>3. ASSUME NEW m \in 1..Len(h) PROVE RowKept(g, m, pins, wds)
  <2>1. RowKept(h, m, pins, wds) /\ m \in Nat \ {0} /\ m <= Len(h) /\ m <= Len(g)
    BY <1>1 DEF HeadKept
  <2>2. \A i \in 1..m : h[i] = g[i]
    BY <1>1
  <2>. QED BY <1>1, <2>1, <2>2, RowSame
<1>4. \A m \in 1..Len(g) : m \in 1..Len(h) \/ m = Len(h) + 1
  BY <1>1
<1>5. HeadKept(g, pins, wds)
  BY <1>1, <1>2, <1>3, <1>4 DEF HeadKept
<1>. QED BY <1>5 DEF g

LEMMA TransitionsSame ==
  ASSUME NEW b, NEW c, NEW o, b.head = c.head, b.state = c.state
  PROVE  Transitions(b, o) = Transitions(c, o)
BY DEF Transitions

(* The basis of a new row: a kept head, and the state on top of it. *)
BasisKept(b, o, pins, wds) ==
  /\ HeadKept(b.head, pins, wds) /\ StateTyped(b.state) /\ b.state.op = Len(b.head)
  /\ b.state = IF Len(b.head) = 0 THEN Prefix(o.at) ELSE b.head[Len(b.head)].state

LEMMA BelowTop ==
  ASSUME NEW b, NEW o, NEW pins, NEW wds, BasisKept(b, o, pins, wds), NEW row, row.op = o
  PROVE  /\ Below(Append(b.head, row), Len(b.head) + 1).head = b.head
         /\ Below(Append(b.head, row), Len(b.head) + 1).state = b.state
<1>. DEFINE h == b.head
            g == Append(h, row)
            n == Len(h) + 1
<1>1. IsSeq(h) /\ IsSeq(g) /\ Len(g) = n /\ Len(h) \in Nat /\ (\A i \in 1..Len(h) : g[i] = h[i]) /\ g[n] = row
  BY AppendTyped, SeqTyped DEF BasisKept, HeadKept
<1>2. b.state = IF Len(h) = 0 THEN Prefix(o.at) ELSE h[Len(h)].state
  BY DEF BasisKept
<1>. HIDE DEF g, h
<1>3. CASE Len(h) = 0
  <2>1. h = <<>>
    BY <1>1, <1>3, EmptyTyped, SameSeq
  <2>2. Below(g, n) = [head |-> <<>>, state |-> Prefix(row.op.at)]
    BY <1>1, <1>3 DEF Below
  <2>3. Below(g, n).head = h /\ Below(g, n).state = b.state
    BY <2>1, <2>2, <1>2, <1>3
  <2>. QED BY <2>3 DEF g, h
<1>4. CASE Len(h) # 0
  <2>1. SubSeq(g, 1, n - 1) = SubSeq(h, 1, n - 1)
    BY <1>1, SameStart
  <2>2. SubSeq(h, 1, n - 1) = h
    BY <1>1, WholeSeq
  <2>3. Below(g, n) = [head |-> SubSeq(g, 1, n - 1), state |-> g[n - 1].state]
    BY <1>1, <1>4 DEF Below
  <2>4. g[n - 1] = h[Len(h)]
    BY <1>1, <1>4
  <2>5. Below(g, n).head = h /\ Below(g, n).state = b.state
    BY <2>1, <2>2, <2>3, <2>4, <1>2, <1>4
  <2>. QED BY <2>5 DEF g, h
<1>. QED BY <1>3, <1>4

(* A row whose state is well formed tops a kept head. *)
LEMMA TopRow ==
  ASSUME NEW b, NEW o, NEW pins, NEW wds, BasisKept(b, o, pins, wds), NEW row, row.op = o,
         o.version = b.state.op + 1, o.id \in Ids, row.disposition \in Kinds,
         row.disposition = "withdrawn" <=> o.kind = "withdrawal",
         StateTyped(row.state), row.state.op = o.version, b.state.ready => row.state.ready,
         IF o.kind = "withdrawal" THEN WithdrawnRow(Append(b.head, row), Len(b.head) + 1, wds)
         ELSE LearnedRow(Append(b.head, row), Len(b.head) + 1, pins)
  PROVE  HeadKept(Append(b.head, row), pins, wds)
<1>. DEFINE h == b.head
            g == Append(h, row)
            n == Len(h) + 1
<1>1. /\ HeadKept(h, pins, wds) /\ IsSeq(h) /\ Len(g) = n /\ Len(h) \in Nat
      /\ (\A i \in 1..Len(h) : g[i] = h[i]) /\ g[n] = row /\ n \in Nat
  BY AppendTyped, SeqTyped DEF BasisKept, HeadKept
<1>2. o.version = n
  BY DEF BasisKept
<1>. HIDE DEF g
<1>3. ASSUME NEW m \in 1..n, g[m].state.ready PROVE g[n].state.ready
  <2>1. CASE m = n
    BY <2>1, <1>3
  <2>2. CASE m # n
    <3>1. m \in 1..Len(h) /\ Len(h) \in 1..Len(h)
      BY <2>2, <1>1
    <3>2. h[m].state.ready
      BY <3>1, <1>1, <1>3
    <3>3. RowKept(h, Len(h), pins, wds)
      BY <3>1, <1>1 DEF HeadKept
    <3>4. h[Len(h)].state.ready
      BY <3>1, <3>2, <3>3 DEF RowKept
    <3>5. b.state = h[Len(h)].state
      BY <3>1, <1>1 DEF BasisKept
    <3>. QED BY <3>4, <3>5, <1>1
  <2>. QED BY <2>1, <2>2
<1>4. IF g[n].op.kind = "withdrawal" THEN WithdrawnRow(g, n, wds) ELSE LearnedRow(g, n, pins)
  BY <1>1 DEF g
<1>5. RowKept(g, n, pins, wds)
  BY <1>1, <1>2, <1>3, <1>4 DEF RowKept
<1>. QED BY <1>1, <1>5, AppendKept DEF g

LEMMA ResolvedOp ==
  ASSUME NEW e \in Ops, NEW x
  PROVE  /\ Resolved(e, x).id = e.id /\ Resolved(e, x).version = e.version
         /\ Resolved(e, x).kind = e.kind /\ Resolved(e, x).at = e.at
         /\ e.kind # "withdrawal" /\ e.version \in Nat \ {0}
BY JournalAssumption DEF Resolved, Entries

LEMMA LearnedTop ==
  ASSUME NEW b, NEW e \in Ops, NEW x, NEW pins, NEW wds, x # NoPin, pins[e.version] = x,
         BasisKept(b, e, pins, wds), NEW row \in Transitions(b, Resolved(e, x))
  PROVE  /\ HeadKept(Append(b.head, row), pins, wds) /\ row.op.id = e.id
         /\ e.version = Len(b.head) + 1 /\ row.disposition # "withdrawn"
<1>. DEFINE o == Resolved(e, x)
            g == Append(b.head, row)
            n == Len(b.head) + 1
<1>1. o.id = e.id /\ o.version = e.version /\ o.kind = e.kind /\ o.at = e.at /\ o.kind # "withdrawal"
  BY ResolvedOp
<1>2. BasisKept(b, o, pins, wds)
  BY <1>1 DEF BasisKept
<1>. HIDE DEF o
<1>3. /\ row.op = o /\ row.disposition \in {"applied", "rejected"}
      /\ o.version = b.state.op + 1
      /\ StateTyped(row.state) /\ row.state.op = o.version /\ row.state.ready
  BY <1>1, <1>2, TransitionRow DEF BasisKept, o
<1>4. row \in Transitions(Below(g, n), o)
  BY <1>2, <1>3, BelowTop, TransitionsSame DEF o
<1>5. g[n] = row
  BY <1>2, AppendTyped DEF BasisKept, HeadKept
<1>6. LearnedRow(g, n, pins)
  BY <1>1, <1>3, <1>4, <1>5 DEF LearnedRow, o
<1>7. HeadKept(g, pins, wds)
  BY <1>1, <1>2, <1>3, <1>6, TopRow DEF Kinds, Ids
<1>. QED BY <1>1, <1>2, <1>3, <1>7 DEF BasisKept

LEMMA WithdrawnTop ==
  ASSUME NEW b, NEW x \in Withdrawals, NEW pins, NEW wds, x \in wds,
         BasisKept(b, x, pins, wds), Verdict(b.state, x) = "ok", NEW row,
         row = Outcome(x, "withdrawn", "withdrawn", 0, Reduced(b.state, x))
  PROVE  /\ HeadKept(Append(b.head, row), pins, wds) /\ row.op.id = x.id
         /\ x.version = Len(b.head) + 1 /\ row.disposition = "withdrawn"
<1>. DEFINE g == Append(b.head, row)
            n == Len(b.head) + 1
<1>1. x.kind = "withdrawal" /\ x.id \in Ids
  BY JournalAssumption DEF Ids
<1>2. row.op = x /\ row.disposition = "withdrawn" /\ row.state = Reduced(b.state, x)
  BY DEF Outcome
<1>3. /\ x.version = b.state.op + 1 /\ StateTyped(row.state)
      /\ row.state.op = x.version /\ (b.state.ready => row.state.ready)
  BY <1>2, ReducedState DEF BasisKept
<1>4. g[n] = row
  BY AppendTyped DEF BasisKept, HeadKept
<1>5. WithdrawnRow(g, n, wds)
  BY <1>2, <1>4, BelowTop DEF WithdrawnRow
<1>6. HeadKept(g, pins, wds)
  BY <1>1, <1>2, <1>3, <1>5, TopRow DEF Kinds
<1>. QED BY <1>2, <1>3, <1>6 DEF BasisKept

----------------------------------------------------------------------------
(* A step that leaves the point alone and takes nothing back. *)

Grows ==
  /\ identities \subseteq identities' /\ withdrawn \subseteq withdrawn'
  /\ Keep(pinned, pinned') /\ prepared \subseteq prepared' /\ dead \subseteq dead'
  /\ guard = "initialized" => guard' = "initialized"
  /\ guard' = "initialized" => guard = "initialized" \/ Ready

(* Who acted at most acted on what is committed. *)
Acting == acted' = acted \/ (Len(acted') \in Nat /\ Len(acted') <= Len(point.head))

LEMMA RecordedStays ==
  ASSUME NEW h, NEW n, NEW prep, NEW dd, NEW p2, NEW d2, prep \subseteq p2, dd \subseteq d2,
         Recorded(h, n, prep, dd)
  PROVE  Recorded(h, n, p2, d2)
BY DEF Recorded

LEMMA PointStays ==
  ASSUME PointKept, Grows, point' = point
  PROVE  PointKept'
<1>1. PICK p : p = point
  OBVIOUS
<1>2. HeadKept(p.head, pinned', withdrawn')
  BY <1>1, HeadStays DEF PointKept, Grows
<1>3. Recorded(p.head, Len(p.head), prepared', dead')
  BY <1>1, RecordedStays DEF PointKept, Grows
<1>. QED BY <1>1, <1>2, <1>3 DEF PointKept, Grows, Ready

LEMMA ActedStays ==
  ASSUME ActedKept, Grows, point' = point, acted' = acted
  PROVE  ActedKept'
<1>1. HeadKept(acted, pinned', withdrawn')
  BY HeadStays DEF ActedKept, Grows
<1>2. Recorded(acted, Len(acted), prepared', dead')
  BY RecordedStays DEF ActedKept, Grows
<1>. QED BY <1>1, <1>2 DEF ActedKept, Grows, Ready

LEMMA JobStays ==
  ASSUME Inv, Grows, point' = point, Acting, NEW w \in Workers, job'[w] = job[w]
  PROVE  JobKept(w)'
<1>. DEFINE j == job[w]
<1>1. JobKept(w)
  BY DEF Inv, JobsKept
<1>2. /\ At(w, "idle")' = At(w, "idle") /\ Writing(w)' = Writing(w)
      /\ Uncommitted(w)' = Uncommitted(w) /\ Finished(w)' = Finished(w)
  BY DEF At, Writing, Uncommitted, Finished
<1>3. ASSUME EntryKept(w) PROVE EntryKept(w)'
  BY <1>3 DEF EntryKept, Grows, At, Pinning, Withdrawing
<1>4. ASSUME ~At(w, "idle") PROVE PinKept(w)'
  <2>1. EntryKept(w)
    BY <1>1, <1>4 DEF JobKept
  <2>2. At(w, "refund") \/ At(w, "read") => job[w].entry.version \in Versions
    BY <2>1 DEF EntryKept, Pinning, At, Versions
  <2>3. NoPin \notin Vectors
    BY JournalAssumption
  <2>. QED BY <1>1, <2>2, <2>3 DEF JobKept, PinKept, At, Grows, Keep
<1>5. ASSUME TopKept(w) PROVE TopKept(w)'
  <2>1. HeadKept(j.head, pinned', withdrawn')
    BY <1>5, HeadStays DEF TopKept, Grows
  <2>. QED BY <1>5, <2>1 DEF TopKept, Top, Withdraws
<1>6. ASSUME DraftKept(w) PROVE DraftKept(w)'
  <2>1. Recorded(j.head, Len(j.head) - 1, prepared', dead')
    BY <1>6, RecordedStays DEF DraftKept, Grows
  <2>2. point = NoPoint => guard' # "initialized"
    BY <1>6 DEF DraftKept, Grows, Ready
  <2>3. point = j.before /\ ~Withdraws(w) => Len(acted') < Len(j.head)
    <3>1. Len(j.head) = Len(j.before.head) + 1 /\ Len(j.before.head) \in Nat
      BY <1>6, SeqTyped DEF DraftKept
    <3>2. CASE acted' = acted
      BY <3>2, <1>6 DEF DraftKept
    <3>3. CASE Len(acted') \in Nat /\ Len(acted') <= Len(point.head)
      BY <3>1, <3>3
    <3>. QED BY <3>2, <3>3 DEF Acting
  <2>. QED BY <1>6, <2>1, <2>2, <2>3 DEF DraftKept, Top, Withdraws, At, Grows
<1>7. ASSUME DoneKept(w) PROVE DoneKept(w)'
  BY <1>7 DEF DoneKept, Grows
<1>8. PinKept(w)'
  <2>1. CASE At(w, "idle")
    BY <2>1 DEF PinKept, At
  <2>. QED BY <2>1, <1>4
<1>. QED BY <1>1, <1>2, <1>3, <1>5, <1>6, <1>7, <1>8 DEF JobKept

LEMMA EntryIs ==
  ASSUME NEW e \in Entries
  PROVE  /\ e.version \in Nat \ {0} /\ Of(e) \in Ops /\ Of(e).id = e.id /\ Of(e).version = e.version
         /\ e.kind = "withdrawal" => e \in Withdrawals
         /\ e.kind # "withdrawal" => e \in Ops /\ Of(e) = e
<1>1. CASE e.kind = "withdrawal"
  <2>1. e \in Withdrawals
    BY <1>1, JournalAssumption DEF Entries
  <2>2. PICK p \in Ops : p.id = e.id /\ p.version = e.version
    BY <2>1, JournalAssumption
  <2>3. Of(e) \in Ops /\ Of(e).id = e.id
    BY <1>1, <2>2 DEF Of
  <2>4. Of(e) = p
    BY <2>2, <2>3, JournalAssumption
  <2>. QED BY <1>1, <2>1, <2>2, <2>3, <2>4, JournalAssumption
<1>2. CASE e.kind # "withdrawal"
  <2>1. e \in Ops
    BY <1>2, JournalAssumption DEF Entries
  <2>. QED BY <1>2, <2>1, JournalAssumption DEF Of
<1>. QED BY <1>1, <1>2

LEMMA SameVersion ==
  ASSUME NEW c \in Entries, NEW e \in Entries, c.id = e.id
  PROVE  c.version = e.version
<1>1. Of(c) \in Ops /\ Of(e) \in Ops /\ Of(c).id = Of(e).id
  BY EntryIs
<1>2. Of(c) = Of(e)
  BY <1>1, JournalAssumption
<1>. QED BY <1>2, EntryIs

LEMMA GrowsSame ==
  ASSUME UNCHANGED <<identities, withdrawn, pinned, prepared, dead, guard>>
  PROVE  Grows
BY DEF Grows, Keep

LEMMA GrowsGuarded ==
  ASSUME UNCHANGED <<identities, withdrawn, pinned, prepared, dead>>, Guarded
  PROVE  Grows
BY DEF Grows, Keep, Guarded

(* A worker's step that neither commits nor acknowledges. *)
LEMMA WorkerStep ==
  ASSUME Inv, NEW w \in Workers, NEW r, job' = [job EXCEPT ![w] = r],
         DOMAIN r = Fields, r.pc \in PCs,
         UNCHANGED <<transport, point, acted>>, Grows,
         frozen' \in [Versions -> Vectors \cup {NoPin}],
         pinned' \in [Versions -> Vectors \cup {NoPin}],
         JobKept(w)'
  PROVE  Inv'
<1>1. DOMAIN job = Workers /\ job'[w] = r /\ \A v \in Workers \ {w} : job'[v] = job[v]
  BY DEF Inv, Typed
<1>2. Typed'
  <2>1. DOMAIN job' = Workers
    BY <1>1
  <2>2. ASSUME NEW v \in Workers PROVE DOMAIN job'[v] = Fields /\ job'[v].pc \in PCs
    <3>1. CASE v = w
      BY <3>1, <1>1
    <3>2. CASE v # w
      BY <3>2, <1>1 DEF Inv, Typed
    <3>. QED BY <3>1, <3>2
  <2>. QED BY <2>1, <2>2 DEF Inv, Typed, transport
<1>3. TransportKept' /\ AckedKept'
  BY DEF Inv, TransportKept, AckedKept, SettledFor, transport
<1>4. PointKept' /\ ActedKept'
  BY PointStays, ActedStays DEF Inv
<1>5. ASSUME NEW v \in Workers PROVE JobKept(v)'
  <2>1. CASE v = w
    BY <2>1
  <2>2. CASE v # w
    BY <2>2, <1>1, JobStays DEF Acting
  <2>. QED BY <2>1, <2>2
<1>. QED BY <1>2, <1>3, <1>4, <1>5 DEF Inv, JobsKept

(* Records of a job, field by field. *)
LEMMA JobTyped ==
  ASSUME Inv, NEW w \in Workers
  PROVE  /\ DOMAIN job = Workers /\ DOMAIN job[w] = Fields /\ job[w].pc \in PCs
         /\ pinned \in [Versions -> Vectors \cup {NoPin}]
         /\ frozen \in [Versions -> Vectors \cup {NoPin}]
BY DEF Inv, Typed

LEMMA DropKept ==
  ASSUME Inv, NEW w \in Workers, Drop(w), UNCHANGED <<transport, point, acted>>, Grows,
         frozen' \in [Versions -> Vectors \cup {NoPin}],
         pinned' \in [Versions -> Vectors \cup {NoPin}]
  PROVE  Inv'
<1>1. job' = [job EXCEPT ![w] = IdleJob]
  BY DEF Drop
<1>2. job'[w] = IdleJob
  BY <1>1, JobTyped
<1>3. DOMAIN IdleJob = Fields /\ IdleJob.pc = "idle"
  BY DEF IdleJob, Fields
<1>4. JobKept(w)'
  BY <1>2, <1>3 DEF JobKept, PinKept, At, Writing, Uncommitted, Finished
<1>. HIDE DEF IdleJob
<1>. QED BY <1>1, <1>3, <1>4, WorkerStep DEF PCs

(* The worker goes on with the same entry, to a stage of its own. *)
LEMMA GotoKept ==
  ASSUME Inv, NEW w \in Workers, NEW pc \in PCs, Goto(w, pc),
         UNCHANGED <<transport, point, acted>>, Grows,
         frozen' \in [Versions -> Vectors \cup {NoPin}],
         pinned' \in [Versions -> Vectors \cup {NoPin}],
         job'[w].pc = pc /\ job'[w].entry = job[w].entry /\ job'[w].before = job[w].before
         /\ job'[w].sample = job[w].sample /\ job'[w].want = job[w].want
         /\ job'[w].head = job[w].head => JobKept(w)'
  PROVE  Inv'
<1>. DEFINE r == [job[w] EXCEPT !.pc = pc]
<1>1. job' = [job EXCEPT ![w] = r]
  BY DEF Goto
<1>2. /\ DOMAIN r = Fields /\ r.pc = pc /\ r.entry = job[w].entry /\ r.before = job[w].before
      /\ r.sample = job[w].sample /\ r.want = job[w].want /\ r.head = job[w].head
  BY JobTyped DEF Fields
<1>. HIDE DEF r
<1>3. job'[w] = r
  BY <1>1, JobTyped
<1>4. JobKept(w)'
  BY <1>2, <1>3
<1>. QED BY <1>1, <1>2, <1>4, WorkerStep

LEMMA ForgetKept ==
  ASSUME Inv, NEW w \in Workers, NEW pc \in PCs, Forget(w, pc),
         UNCHANGED <<transport, point, acted>>, Grows,
         frozen' \in [Versions -> Vectors \cup {NoPin}],
         pinned' \in [Versions -> Vectors \cup {NoPin}],
         job'[w].pc = pc /\ job'[w].entry = job[w].entry => JobKept(w)'
  PROVE  Inv'
<1>. DEFINE r == [IdleJob EXCEPT !.pc = pc, !.entry = job[w].entry]
<1>1. job' = [job EXCEPT ![w] = r]
  BY DEF Forget
<1>2. DOMAIN r = Fields /\ r.pc = pc /\ r.entry = job[w].entry
  BY DEF Fields, IdleJob
<1>. HIDE DEF r
<1>3. job'[w] = r
  BY <1>1, JobTyped
<1>4. JobKept(w)'
  BY <1>2, <1>3
<1>. QED BY <1>1, <1>2, <1>4, WorkerStep

----------------------------------------------------------------------------
(* Admission. *)

LEMMA TransportStep ==
  ASSUME Inv, UNCHANGED <<journal, point, job, acted>>, Grows, Typed', TransportKept', AckedKept'
  PROVE  Inv'
<1>1. PointKept' /\ ActedKept'
  BY PointStays, ActedStays DEF Inv
<1>2. ASSUME NEW w \in Workers PROVE JobKept(w)'
  BY JobStays DEF Acting
<1>. QED BY <1>1, <1>2 DEF Inv, JobsKept

LEMMA EnterKept ==
  ASSUME Inv, NEW e \in Entries, Admissible(e), Enter(e), UNCHANGED <<journal, point, job, acted>>,
         asked' \in [Producers -> Entries \cup {NoEntry}]
  PROVE  Inv'
<1>1. /\ Of(e) \in Ops /\ Of(e).id = e.id /\ Of(e).version = e.version
      /\ e.kind = "withdrawal" => e \in Withdrawals
  BY EntryIs
<1>2. /\ identities' = identities \cup {Of(e)} /\ stream' = stream \cup {e}
      /\ withdrawn' = IF e.kind = "withdrawal" THEN withdrawn \cup {e} ELSE withdrawn
      /\ guard' = IF guard = "none" THEN "pending" ELSE guard
  BY DEF Enter
<1>3. Grows
  BY <1>2 DEF Grows, Keep, journal
<1>4. Typed'
  BY <1>1, <1>2 DEF Inv, Typed, journal
<1>5. TransportKept'
  <2>1. \A o \in identities : o.version = Of(e).version => o = Of(e)
    BY <1>1, JournalAssumption DEF Admissible, Conflicting, Inv, Typed
  <2>2. e.kind = "withdrawal" => \A x \in withdrawn : x.version # e.version
    BY DEF Admissible, Duplicate, Refused
  <2>3. \A o, p \in identities' : o.version = p.version => o = p
    BY <1>2, <2>1 DEF Inv, TransportKept
  <2>4. \A x, y \in withdrawn' : x.version = y.version => x = y
    BY <1>2, <2>2 DEF Inv, TransportKept
  <2>5. \A x \in withdrawn' : Of(x) \in identities'
    BY <1>2 DEF Inv, TransportKept
  <2>6. \A d \in stream' : Of(d) \in identities' /\ (d.kind = "withdrawal" => d \in withdrawn')
    BY <1>2 DEF Inv, TransportKept
  <2>. QED BY <2>3, <2>4, <2>5, <2>6 DEF TransportKept
<1>6. AckedKept'
  <2>1. ASSUME NEW x \in withdrawn' \ stream' PROVE SettledFor(x)'
    BY <1>2 DEF Inv, AckedKept, SettledFor
  <2>2. ASSUME NEW o \in identities', \A d \in stream' : d.id # o.id PROVE SettledFor(o)'
    BY <1>1, <1>2, <2>2 DEF Inv, AckedKept, SettledFor
  <2>. QED BY <2>1, <2>2 DEF AckedKept
<1>. QED BY <1>3, <1>4, <1>5, <1>6, TransportStep

LEMMA AdmitKept == ASSUME Inv, NEW e \in Entries, Admit(e) PROVE Inv'
BY EnterKept DEF Admit, Inv, Typed

LEMMA AskKept == ASSUME Inv, NEW p \in Producers, NEW e \in Entries, Ask(p, e) PROVE Inv'
<1>1. Guarded /\ UNCHANGED <<identities, withdrawn, stream, journal, point, job, acted>>
  BY DEF Ask
<1>2. Grows
  BY <1>1, GrowsGuarded DEF journal
<1>3. Typed'
  BY <1>1 DEF Ask, Inv, Typed, journal
<1>4. TransportKept' /\ AckedKept'
  BY <1>1 DEF Inv, TransportKept, AckedKept, SettledFor
<1>. QED BY <1>1, <1>2, <1>3, <1>4, TransportStep

LEMMA RecoverKept == ASSUME Inv, NEW p \in Producers, Recover(p) PROVE Inv'
<1>1. PICK e : e = asked[p]
  OBVIOUS
<1>2. /\ e \in Entries /\ asked' = [asked EXCEPT ![p] = NoEntry]
      /\ UNCHANGED <<journal, point, job, acted>>
  BY <1>1 DEF Recover, Inv, Typed
<1>3. asked' \in [Producers -> Entries \cup {NoEntry}]
  BY <1>2 DEF Inv, Typed
<1>4. CASE Admissible(e) /\ Enter(e)
  BY <1>2, <1>3, <1>4, EnterKept
<1>5. CASE UNCHANGED <<identities, withdrawn, stream, guard>>
  <2>1. Grows
    BY <1>2, <1>5, GrowsSame DEF journal
  <2>2. Typed' /\ TransportKept' /\ AckedKept'
    BY <1>2, <1>3, <1>5 DEF Inv, Typed, TransportKept, AckedKept, SettledFor, journal
  <2>. QED BY <1>2, <2>1, <2>2, TransportStep
<1>. QED BY <1>1, <1>4, <1>5 DEF Recover

----------------------------------------------------------------------------
(* Up to the outcome of an operation. *)

LEMMA TakeKept == ASSUME Inv, NEW w \in Workers, NEW e \in Entries, Take(w, e) PROVE Inv'
<1>. DEFINE pc == IF e.kind = "withdrawal" THEN "attest" ELSE "look"
            r == [job[w] EXCEPT !.entry = e, !.pc = pc]
<1>1. job' = [job EXCEPT ![w] = r] /\ UNCHANGED <<transport, guard, journal, point, acted>>
  BY DEF Take
<1>2. DOMAIN r = Fields /\ r.pc = pc /\ r.entry = e /\ pc \in PCs
  BY JobTyped DEF Fields, PCs
<1>3. /\ Of(e) \in identities /\ (e.kind = "withdrawal" => e \in withdrawn)
      /\ e.kind # "withdrawal" => e \in Ops
  BY EntryIs DEF Take, Inv, TransportKept
<1>4. pc \in {"attest", "look"} /\ (pc = "look" => e.kind # "withdrawal")
      /\ (pc = "attest" => e.kind = "withdrawal")
  OBVIOUS
<1>. HIDE DEF r, pc
<1>5. job'[w].pc = pc /\ job'[w].entry = e
  BY <1>1, <1>2, JobTyped
<1>6. JobKept(w)'
  <2>1. EntryKept(w)'
    BY <1>1, <1>3, <1>4, <1>5 DEF EntryKept, Pinning, At, transport
  <2>. QED BY <1>4, <1>5, <2>1 DEF JobKept, PinKept, Writing, Uncommitted, Finished, At
<1>7. Grows /\ frozen' = frozen /\ pinned' = pinned
  BY <1>1, GrowsSame DEF transport, journal
<1>. QED BY <1>1, <1>2, <1>6, <1>7, WorkerStep, JobTyped

(* Who found its operation committed may acknowledge it. *)
LEMMA AckReady ==
  ASSUME Inv, NEW e \in Entries, Applied(e), Row(e.version).op.id = e.id, Guarded, point' = point,
         NEW w \in Workers, job'[w].pc = "ack", job'[w].entry \in Entries,
         job'[w].entry.version = e.version, job'[w].entry.id = e.id
  PROVE  DoneKept(w)'
<1>1. /\ point # NoPoint /\ Len(point.head) \in Nat /\ Len(point.head) > 0
      /\ e.version \in 1..Len(point.head)
      /\ point.state = point.head[Len(point.head)].state
      /\ RowKept(point.head, Len(point.head), pinned, withdrawn)
  BY EntryIs, SeqTyped DEF Inv, PointKept, HeadKept, Applied
<1>2. point.head[e.version].state.ready => Ready
  BY <1>1 DEF RowKept, Ready
<1>3. point.head[e.version].state.ready => guard' = "initialized"
  BY <1>2 DEF Guarded
<1>. QED BY <1>1, <1>3 DEF DoneKept, Row

LEMMA LookKept == ASSUME Inv, NEW w \in Workers, Look(w) PROVE Inv'
<1>. DEFINE e == job[w].entry
<1>1. At(w, "look") /\ Guarded /\ UNCHANGED <<transport, journal, point, acted>>
  BY DEF Look
<1>2. Grows /\ frozen' = frozen /\ pinned' = pinned
  BY <1>1, GrowsGuarded DEF transport, journal
<1>3. EntryKept(w)
  BY <1>1 DEF Inv, JobsKept, JobKept, At
<1>4. CASE Drop(w)
  BY <1>1, <1>2, <1>4, DropKept, JobTyped
<1>5. CASE Goto(w, "ack") /\ Applied(e) /\ Proven(e)
  <2>1. ASSUME job'[w].pc = "ack", job'[w].entry = e PROVE JobKept(w)'
    <3>1. EntryKept(w)'
      BY <1>1, <1>3, <2>1 DEF EntryKept, At, Pinning, transport
    <3>2. DoneKept(w)'
      BY <1>1, <1>3, <1>5, <2>1, AckReady DEF EntryKept, Proven
    <3>. QED BY <2>1, <3>1, <3>2 DEF JobKept, PinKept, Writing, Uncommitted, At
  <2>. QED BY <1>1, <1>2, <1>5, <2>1, GotoKept, JobTyped DEF PCs
<1>6. CASE Goto(w, "pin")
  <2>1. ASSUME job'[w].pc = "pin", job'[w].entry = e PROVE JobKept(w)'
    <3>1. EntryKept(w)'
      BY <1>1, <1>3, <2>1 DEF EntryKept, At, Pinning, transport
    <3>. QED BY <2>1, <3>1 DEF JobKept, PinKept, Writing, Uncommitted, Finished, At
  <2>. QED BY <1>1, <1>2, <1>6, <2>1, GotoKept, JobTyped DEF PCs
<1>7. CASE job' = [job EXCEPT ![w].before = point, ![w].pc = "lookup"]
  <2>. DEFINE r == [job[w] EXCEPT !.before = point, !.pc = "lookup"]
  <2>1. job' = [job EXCEPT ![w] = r]
    BY <1>7
  <2>2. DOMAIN r = Fields /\ r.pc = "lookup" /\ r.entry = e
    BY JobTyped DEF Fields
  <2>. HIDE DEF r
  <2>3. job'[w].pc = "lookup" /\ job'[w].entry = e
    BY <2>1, <2>2, JobTyped
  <2>4. EntryKept(w)'
    BY <1>1, <1>3, <2>3 DEF EntryKept, At, Pinning, transport
  <2>5. JobKept(w)'
    BY <2>3, <2>4 DEF JobKept, PinKept, Writing, Uncommitted, Finished, At
  <2>. QED BY <1>1, <1>2, <2>1, <2>2, <2>5, WorkerStep, JobTyped DEF PCs
<1>. QED BY <1>4, <1>5, <1>6, <1>7 DEF Look

LEMMA LookupKept == ASSUME Inv, NEW w \in Workers, Lookup(w) PROVE Inv'
<1>. DEFINE e == job[w].entry
<1>1. At(w, "lookup") /\ UNCHANGED <<transport, guard, journal, point, acted>>
  BY DEF Lookup
<1>2. Grows /\ frozen' = frozen /\ pinned' = pinned
  BY <1>1, GrowsSame DEF transport, journal
<1>3. EntryKept(w) /\ e \in Ops
  BY <1>1 DEF Inv, JobsKept, JobKept, EntryKept, Pinning, At
<1>4. CASE Drop(w)
  BY <1>1, <1>2, <1>4, DropKept, JobTyped
<1>5. CASE Forget(w, "attest") /\ Withdrawing(e) # {}
  <2>1. ASSUME job'[w].pc = "attest", job'[w].entry = e PROVE JobKept(w)'
    <3>1. EntryKept(w)'
      BY <1>1, <1>3, <1>5, <2>1 DEF EntryKept, At, Pinning, transport, Withdrawing
    <3>. QED BY <2>1, <3>1 DEF JobKept, PinKept, Writing, Uncommitted, Finished, At
  <2>. QED BY <1>1, <1>2, <1>5, <2>1, ForgetKept, JobTyped DEF PCs
<1>6. CASE Forget(w, "pin")
  <2>1. ASSUME job'[w].pc = "pin", job'[w].entry = e PROVE JobKept(w)'
    <3>1. EntryKept(w)'
      BY <1>1, <1>3, <2>1 DEF EntryKept, At, Pinning, transport
    <3>. QED BY <2>1, <3>1 DEF JobKept, PinKept, Writing, Uncommitted, Finished, At
  <2>. QED BY <1>1, <1>2, <1>6, <2>1, ForgetKept, JobTyped DEF PCs
<1>. QED BY <1>4, <1>5, <1>6 DEF Lookup

LEMMA PinStepKept == ASSUME Inv, NEW w \in Workers, Pin(w) PROVE Inv'
<1>. DEFINE v == job[w].entry.version
            r == [job[w] EXCEPT !.sample = frozen[v], !.pc = "fetch"]
<1>1. At(w, "pin") /\ UNCHANGED <<transport, guard, journal, point, acted>>
      /\ job' = [job EXCEPT ![w] = r]
  BY DEF Pin
<1>2. Grows /\ frozen' = frozen /\ pinned' = pinned
  BY <1>1, GrowsSame DEF transport, journal
<1>3. EntryKept(w) /\ job[w].entry \in Ops
  BY <1>1 DEF Inv, JobsKept, JobKept, EntryKept, Pinning, At
<1>4. DOMAIN r = Fields /\ r.pc = "fetch" /\ r.entry = job[w].entry /\ r.sample = frozen[v]
  BY JobTyped DEF Fields
<1>. HIDE DEF r
<1>5. job'[w] = r
  BY <1>1, JobTyped
<1>6. JobKept(w)'
  <2>1. EntryKept(w)'
    BY <1>1, <1>3, <1>4, <1>5 DEF EntryKept, Pinning, At, transport
  <2>2. frozen[v] \in Vectors \cup {NoPin}
    BY <1>3, JobTyped DEF Versions
  <2>3. PinKept(w)'
    BY <1>4, <1>5, <2>2 DEF PinKept, At
  <2>. QED BY <1>4, <1>5, <2>1, <2>3 DEF JobKept, Writing, Uncommitted, Finished, At
<1>. QED BY <1>1, <1>2, <1>4, <1>6, WorkerStep, JobTyped DEF PCs

LEMMA FetchKept == ASSUME Inv, NEW w \in Workers, Fetch(w) PROVE Inv'
<1>. DEFINE v == job[w].entry.version
<1>1. At(w, "fetch") /\ UNCHANGED <<transport, guard, journal, point, acted>>
  BY DEF Fetch
<1>2. Grows /\ frozen' = frozen /\ pinned' = pinned
  BY <1>1, GrowsSame DEF transport, journal
<1>3. /\ EntryKept(w) /\ job[w].entry \in Ops /\ v \in Versions
      /\ job[w].sample \in Vectors \cup {NoPin}
  BY <1>1 DEF Inv, JobsKept, JobKept, EntryKept, PinKept, Pinning, At, Versions
<1>4. CASE Drop(w)
  BY <1>1, <1>2, <1>4, DropKept, JobTyped
<1>5. CASE Goto(w, "copy") /\ job[w].sample # NoPin
  <2>1. ASSUME job'[w].pc = "copy", job'[w].entry = job[w].entry, job'[w].sample = job[w].sample
        PROVE  JobKept(w)'
    <3>1. EntryKept(w)'
      BY <1>1, <1>3, <2>1 DEF EntryKept, At, Pinning, transport
    <3>2. PinKept(w)'
      BY <1>3, <1>5, <2>1 DEF PinKept, At
    <3>. QED BY <2>1, <3>1, <3>2 DEF JobKept, Writing, Uncommitted, Finished, At
  <2>. QED BY <1>1, <1>2, <1>5, <2>1, GotoKept, JobTyped DEF PCs
<1>6. ASSUME NEW x \in Vectors, NEW pc \in {"read", "reserve"},
             job' = [job EXCEPT ![w].want = x, ![w].pc = pc], pc = "read" => pinned[v] = x
      PROVE  Inv'
  <2>. DEFINE r == [job[w] EXCEPT !.want = x, !.pc = pc]
  <2>1. job' = [job EXCEPT ![w] = r]
    BY <1>6
  <2>2. DOMAIN r = Fields /\ r.pc = pc /\ r.entry = job[w].entry /\ r.want = x
    BY JobTyped DEF Fields
  <2>. HIDE DEF r
  <2>3. job'[w] = r
    BY <2>1, JobTyped
  <2>4. EntryKept(w)'
    BY <1>1, <1>3, <1>6, <2>2, <2>3 DEF EntryKept, At, Pinning, transport
  <2>5. PinKept(w)'
    BY <1>2, <1>6, <2>2, <2>3 DEF PinKept, At
  <2>6. JobKept(w)'
    BY <1>6, <2>2, <2>3, <2>4, <2>5 DEF JobKept, Writing, Uncommitted, Finished, At
  <2>7. r.pc \in PCs
    BY <2>2, <1>6 DEF PCs
  <2>. QED BY <1>1, <1>2, <2>1, <2>2, <2>6, <2>7, WorkerStep, JobTyped
<1>7. CASE pinned[v] # NoPin /\ job' = [job EXCEPT ![w].want = pinned[v], ![w].pc = "read"]
  <2>1. pinned[v] \in Vectors
    BY <1>3, <1>7, JobTyped
  <2>. QED BY <1>6, <1>7, <2>1
<1>8. CASE \E x \in Vectors : job' = [job EXCEPT ![w].want = x, ![w].pc = "reserve"]
  BY <1>6, <1>8
<1>. QED BY <1>4, <1>5, <1>7, <1>8 DEF Fetch

LEMMA ReserveKept == ASSUME Inv, NEW w \in Workers, Reserve(w) PROVE Inv'
<1>. DEFINE v == job[w].entry.version
<1>1. /\ At(w, "reserve") /\ Forget(w, "pin")
      /\ UNCHANGED <<transport, guard, pinned, prepared, dead, point, acted>>
  BY DEF Reserve
<1>2. Grows
  BY <1>1, GrowsSame DEF transport
<1>3. /\ EntryKept(w) /\ job[w].entry \in Ops /\ v \in Versions /\ job[w].want \in Vectors
  BY <1>1 DEF Inv, JobsKept, JobKept, EntryKept, PinKept, Pinning, At, Versions
<1>4. frozen' \in [Versions -> Vectors \cup {NoPin}]
  BY <1>3, JobTyped DEF Reserve
<1>5. ASSUME job'[w].pc = "pin", job'[w].entry = job[w].entry PROVE JobKept(w)'
  <2>1. EntryKept(w)'
    BY <1>1, <1>3, <1>5 DEF EntryKept, At, Pinning, transport
  <2>. QED BY <1>5, <2>1 DEF JobKept, PinKept, Writing, Uncommitted, Finished, At
<1>. QED BY <1>1, <1>2, <1>4, <1>5, ForgetKept, JobTyped DEF PCs

LEMMA CopyOverKept == ASSUME Inv, NEW w \in Workers, CopyOver(w) PROVE Inv'
<1>. DEFINE v == job[w].entry.version
<1>1. /\ At(w, "copy") /\ UNCHANGED <<transport, guard, frozen, reserved, prepared, dead, point, acted>>
      /\ pinned' = IF pinned[v] = NoPin THEN [pinned EXCEPT ![v] = job[w].sample] ELSE pinned
  BY DEF CopyOver
<1>2. EntryKept(w) /\ job[w].entry \in Ops /\ v \in Versions /\ job[w].sample \in Vectors
  BY <1>1 DEF Inv, JobsKept, JobKept, EntryKept, PinKept, Pinning, At, Versions
<1>3. pinned' \in [Versions -> Vectors \cup {NoPin}]
  BY <1>1, <1>2, JobTyped
<1>4. Keep(pinned, pinned')
  BY <1>1, <1>2, JobTyped DEF Keep
<1>5. Grows
  BY <1>1, <1>4 DEF Grows, transport
<1>6. CASE Drop(w)
  BY <1>1, <1>3, <1>5, <1>6, DropKept, JobTyped
<1>7. CASE Goto(w, "refund") /\ pinned'[v] = job[w].sample
  <2>1. ASSUME job'[w].pc = "refund", job'[w].entry = job[w].entry, job'[w].sample = job[w].sample
        PROVE  JobKept(w)'
    <3>1. EntryKept(w)'
      BY <1>1, <1>2, <2>1 DEF EntryKept, At, Pinning, transport
    <3>2. PinKept(w)'
      BY <1>2, <1>7, <2>1 DEF PinKept, At
    <3>. QED BY <2>1, <3>1, <3>2 DEF JobKept, Writing, Uncommitted, Finished, At
  <2>. QED BY <1>1, <1>3, <1>5, <1>7, <2>1, GotoKept, JobTyped DEF PCs
<1>. QED BY <1>6, <1>7 DEF CopyOver

LEMMA RefundKept == ASSUME Inv, NEW w \in Workers, Refund(w) PROVE Inv'
<1>. DEFINE v == job[w].entry.version
            r == [job[w] EXCEPT !.want = job[w].sample, !.sample = NoPin, !.pc = "read"]
<1>1. /\ At(w, "refund") /\ job' = [job EXCEPT ![w] = r]
      /\ UNCHANGED <<transport, guard, reserved, pinned, prepared, dead, point, acted>>
      /\ frozen' = [frozen EXCEPT ![v] = NoPin]
  BY DEF Refund
<1>2. Grows /\ frozen' \in [Versions -> Vectors \cup {NoPin}]
  BY <1>1, GrowsSame, JobTyped DEF transport
<1>3. /\ EntryKept(w) /\ job[w].entry \in Ops /\ job[w].sample \in Vectors
      /\ pinned[v] = job[w].sample
  BY <1>1 DEF Inv, JobsKept, JobKept, EntryKept, PinKept, Pinning, At
<1>4. DOMAIN r = Fields /\ r.pc = "read" /\ r.entry = job[w].entry /\ r.want = job[w].sample
  BY JobTyped DEF Fields
<1>. HIDE DEF r
<1>5. job'[w] = r
  BY <1>1, JobTyped
<1>6. JobKept(w)'
  <2>1. EntryKept(w)'
    BY <1>1, <1>3, <1>4, <1>5 DEF EntryKept, Pinning, At, transport
  <2>2. PinKept(w)'
    BY <1>1, <1>3, <1>4, <1>5 DEF PinKept, At
  <2>. QED BY <1>4, <1>5, <2>1, <2>2 DEF JobKept, Writing, Uncommitted, Finished, At
<1>. QED BY <1>1, <1>2, <1>4, <1>6, WorkerStep, JobTyped DEF PCs

----------------------------------------------------------------------------
(* The outcome, on top of what was read. *)

LEMMA BasisIs ==
  ASSUME Inv, NEW e
  PROVE  /\ BasisKept(Basis(e), e, pinned, withdrawn) /\ Basis(e).head = point.head
         /\ IsSeq(point.head) /\ Len(point.head) \in Nat
<1>1. /\ HeadKept(point.head, pinned, withdrawn) /\ IsSeq(point.head) /\ Len(point.head) \in Nat
      /\ StateTyped(point.state) /\ point.state.op = Len(point.head)
      /\ point # NoPoint => Len(point.head) > 0 /\ point.state = point.head[Len(point.head)].state
  BY SeqTyped DEF Inv, PointKept, HeadKept
<1>2. CASE point = NoPoint
  <2>1. Basis(e).head = <<>> /\ Basis(e).state = Prefix(e.at) /\ point.head = <<>>
    BY <1>2 DEF Basis, NoPoint
  <2>2. StateTyped(Prefix(e.at)) /\ Prefix(e.at).op = 0
    BY DEF StateTyped, Prefix
  <2>. QED BY <1>1, <2>1, <2>2, EmptyTyped DEF BasisKept
<1>3. CASE point # NoPoint
  <2>1. Basis(e) = point
    BY <1>3 DEF Basis
  <2>. QED BY <1>1, <1>3, <2>1 DEF BasisKept
<1>. QED BY <1>2, <1>3

(* A withdrawal that was acted on before the point was lost stands in the  *)
(* way of the profile it names.                                            *)
LEMMA Behind ==
  ASSUME Inv, NEW e \in Ops, e \in identities, Withdrawing(e) = {} \/ Ready, Readable,
         e.version = Len(point.head) + 1
  PROVE  Len(acted) <= Len(point.head)
<1>. SUFFICES ASSUME Len(point.head) < Len(acted) PROVE FALSE
  BY SeqTyped DEF Inv, PointKept, ActedKept, HeadKept
<1>1. /\ ~Ready /\ HeadKept(acted, pinned, withdrawn)
      /\ Len(point.head) \in Nat /\ Len(acted) \in Nat
  BY SeqTyped DEF Inv, PointKept, ActedKept, HeadKept
<1>2. guard # "initialized"
  BY <1>1 DEF Inv, PointKept, Readable
<1>. DEFINE n == e.version
            y == acted[n].op
<1>3. n \in 1..Len(acted) /\ Len(acted) \in 1..Len(acted)
  BY <1>1
<1>4. RowKept(acted, n, pinned, withdrawn) /\ RowKept(acted, Len(acted), pinned, withdrawn)
  BY <1>1, <1>3 DEF HeadKept
<1>5. ~acted[Len(acted)].state.ready
  BY <1>1, <1>2, <1>3 DEF Inv, ActedKept
<1>6. ~acted[n].state.ready
  BY <1>3, <1>4, <1>5 DEF RowKept
<1>7. y \in withdrawn /\ y.version = n
  BY <1>4, <1>6 DEF RowKept, LearnedRow, WithdrawnRow
<1>8. y \in Entries /\ Of(y) \in identities /\ Of(y).version = n /\ Of(y).id = y.id
  BY <1>7, EntryIs DEF Inv, Typed, TransportKept, Entries
<1>9. Of(y) = e
  BY <1>8 DEF Inv, TransportKept
<1>. QED BY <1>1, <1>7, <1>8, <1>9 DEF Withdrawing

(* A worker that prepared a row on top of the point it read. *)
LEMMA DraftMade ==
  ASSUME Inv, NEW w \in Workers, NEW row, NEW r, r.pc = "prepare", r.entry = job[w].entry,
         r.before = point, r.head = Append(point.head, row), job'[w] = r,
         EntryKept(w), UNCHANGED <<transport, journal, point, acted>>, Guarded, Readable,
         HeadKept(r.head, pinned, withdrawn), row.op.id = r.entry.id,
         r.entry.version = Len(point.head) + 1,
         r.entry.kind = "withdrawal" => row.disposition = "withdrawn",
         row.disposition = "withdrawn" \/ Len(acted) <= Len(point.head)
  PROVE  JobKept(w)'
<1>1. /\ HeadKept(point.head, pinned, withdrawn) /\ IsSeq(point.head) /\ Len(point.head) \in Nat
      /\ Recorded(point.head, Len(point.head), prepared, dead)
  BY BasisIs DEF Inv, PointKept
<1>2. /\ IsSeq(r.head) /\ Len(r.head) = Len(point.head) + 1 /\ r.head[Len(r.head)] = row
      /\ \A i \in 1..Len(point.head) : r.head[i] = point.head[i]
  BY <1>1, AppendTyped
<1>3. Recorded(r.head, Len(r.head) - 1, prepared, dead)
  <2>1. PICK g, h : g = point.head /\ h = r.head
    OBVIOUS
  <2>2. /\ IsSeq(g) /\ IsSeq(h) /\ Len(g) \in Nat /\ Len(g) <= Len(g) /\ Len(g) <= Len(h)
        /\ (\A i \in 1..Len(g) : g[i] = h[i]) /\ Recorded(g, Len(g), prepared, dead)
    BY <1>1, <1>2, <2>1
  <2>3. Recorded(h, Len(g), prepared, dead)
    BY <2>2, RecordedSame
  <2>. QED BY <1>1, <1>2, <2>1, <2>3
<1>4. UNCHANGED <<identities, withdrawn, pinned, prepared, dead>>
  BY DEF transport, journal
<1>5. EntryKept(w)'
  BY <1>4 DEF EntryKept, At, Pinning
<1>6. Top(w)' = row /\ (Withdraws(w)' <=> row.disposition = "withdrawn")
  BY <1>2 DEF Top, Withdraws
<1>7. TopKept(w)'
  BY <1>2, <1>4, <1>6 DEF TopKept
<1>8. point = NoPoint => guard' # "initialized"
  BY DEF Readable, Guarded, Ready
<1>9. Len(acted) \in Nat
  BY SeqTyped DEF Inv, ActedKept, HeadKept
<1>10. DraftKept(w)'
  <2>1. /\ job'[w].head = r.head /\ job'[w].before = point /\ job'[w].pc = "prepare"
        /\ point' = point /\ acted' = acted
    OBVIOUS
  <2>2. Recorded(r.head, Len(r.head) - 1, prepared', dead')
    BY <1>3, <1>4
  <2>3. Withdraws(w)' \/ Len(acted) < Len(r.head)
    BY <1>1, <1>2, <1>6, <1>9
  <2>4. IsSeq(point.head) /\ Len(point.head) <= Len(point.head)
    BY <1>1
  <2>. QED BY <1>2, <1>8, <2>1, <2>2, <2>3, <2>4 DEF DraftKept, At
<1>. QED BY <1>5, <1>7, <1>10 DEF JobKept, PinKept, Writing, Uncommitted, Finished, At

LEMMA PreparedKept ==
  ASSUME Inv, NEW w \in Workers, NEW row, NEW b, b.head = point.head,
         job' = [job EXCEPT ![w].before = point, ![w].head = Append(b.head, row),
                            ![w].want = NoPin, ![w].pc = "prepare"],
         EntryKept(w), UNCHANGED <<transport, journal, point, acted>>, Guarded, Readable,
         HeadKept(Append(b.head, row), pinned, withdrawn), row.op.id = job[w].entry.id,
         job[w].entry.version = Len(point.head) + 1,
         job[w].entry.kind = "withdrawal" => row.disposition = "withdrawn",
         row.disposition = "withdrawn" \/ Len(acted) <= Len(point.head)
  PROVE  Inv'
<1>. DEFINE r == [job[w] EXCEPT !.before = point, !.head = Append(point.head, row),
                                !.want = NoPin, !.pc = "prepare"]
<1>1. job' = [job EXCEPT ![w] = r]
  OBVIOUS
<1>2. /\ DOMAIN r = Fields /\ r.pc = "prepare" /\ r.entry = job[w].entry
      /\ r.before = point /\ r.head = Append(point.head, row)
  BY JobTyped DEF Fields
<1>. HIDE DEF r
<1>3. job'[w] = r
  BY <1>1, JobTyped
<1>4. JobKept(w)'
  BY <1>2, <1>3, DraftMade
<1>5. Grows /\ frozen' = frozen /\ pinned' = pinned
  BY GrowsGuarded DEF transport, journal
<1>. QED BY <1>1, <1>2, <1>4, <1>5, WorkerStep, JobTyped DEF PCs

LEMMA ReadKept == ASSUME Inv, NEW w \in Workers, Read(w) PROVE Inv'
<1>. DEFINE e == job[w].entry
            o == Resolved(e, job[w].want)
<1>1. At(w, "read") /\ Guarded /\ UNCHANGED <<transport, journal, point, acted>>
  BY DEF Read
<1>2. Grows /\ frozen' = frozen /\ pinned' = pinned
  BY <1>1, GrowsGuarded DEF transport, journal
<1>3. /\ EntryKept(w) /\ e \in Ops /\ e \in identities /\ job[w].want # NoPin
      /\ pinned[e.version] = job[w].want /\ e.kind # "withdrawal"
  <2>1. /\ EntryKept(w) /\ e \in Ops /\ job[w].want \in Vectors
        /\ pinned[e.version] = job[w].want
    BY <1>1 DEF Inv, JobsKept, JobKept, EntryKept, PinKept, Pinning, At
  <2>2. e.kind # "withdrawal" /\ Of(e) = e
    BY <2>1, JobTyped, JournalAssumption DEF Of
  <2>. QED BY <2>1, <2>2, JournalAssumption DEF EntryKept
<1>4. CASE Drop(w)
  BY <1>1, <1>2, <1>4, DropKept, JobTyped
<1>5. CASE Goto(w, "ack") /\ Applied(e) /\ Proven(e)
  <2>1. ASSUME job'[w].pc = "ack", job'[w].entry = e PROVE JobKept(w)'
    <3>1. EntryKept(w)'
      BY <1>1, <1>3, <2>1 DEF EntryKept, At, Pinning, transport
    <3>2. DoneKept(w)'
      BY <1>1, <1>3, <1>5, <2>1, AckReady DEF EntryKept, Proven
    <3>. QED BY <2>1, <3>1, <3>2 DEF JobKept, PinKept, Writing, Uncommitted, At
  <2>. QED BY <1>1, <1>2, <1>5, <2>1, GotoKept, JobTyped DEF PCs
<1>6. CASE /\ Readable /\ Consented(w) /\ (Ready \/ e.kind = "profile")
           /\ \E row \in Transitions(Basis(e), o) :
                job' = [job EXCEPT ![w].before = point, ![w].head = Append(Basis(e).head, row),
                                   ![w].want = NoPin, ![w].pc = "prepare"]
  <2>1. PICK row \in Transitions(Basis(e), o) :
                job' = [job EXCEPT ![w].before = point, ![w].head = Append(Basis(e).head, row),
                                   ![w].want = NoPin, ![w].pc = "prepare"]
    BY <1>6
  <2>2. /\ HeadKept(Append(Basis(e).head, row), pinned, withdrawn) /\ row.op.id = e.id
        /\ e.version = Len(Basis(e).head) + 1 /\ row.disposition # "withdrawn"
    BY <1>3, BasisIs, LearnedTop
  <2>3. Basis(e).head = point.head
    BY BasisIs
  <2>4. Len(acted) <= Len(point.head)
    BY <1>3, <1>6, <2>2, <2>3, Behind DEF Consented
  <2>. QED BY <1>1, <1>3, <1>6, <2>1, <2>2, <2>3, <2>4, PreparedKept
<1>. QED BY <1>4, <1>5, <1>6 DEF Read, Prepared

LEMMA AttestKept == ASSUME Inv, NEW w \in Workers, Attest(w) PROVE Inv'
<1>. DEFINE e == job[w].entry
<1>1. At(w, "attest") /\ Guarded /\ UNCHANGED <<transport, journal, point, acted>>
  BY DEF Attest
<1>2. Grows /\ frozen' = frozen /\ pinned' = pinned
  BY <1>1, GrowsGuarded DEF transport, journal
<1>3. EntryKept(w) /\ e \in Entries /\ (e.kind = "withdrawal" \/ Withdrawing(e) # {})
  BY <1>1 DEF Inv, JobsKept, JobKept, EntryKept, At
<1>4. PICK x : x = IF e.kind = "withdrawal" THEN e ELSE CHOOSE y \in Withdrawing(e) : TRUE
  OBVIOUS
<1>5. x \in withdrawn /\ x \in Withdrawals /\ x \in Entries /\ x.id = e.id /\ x.version = e.version
  <2>1. x \in withdrawn /\ x.id = e.id
    BY <1>3, <1>4 DEF EntryKept, Withdrawing
  <2>2. x \in Withdrawals /\ x \in Entries
    BY <2>1 DEF Inv, Typed, Entries
  <2>3. Of(x) = Of(e)
    BY <1>3, <2>1, <2>2, EntryIs, JournalAssumption
  <2>. QED BY <1>3, <2>1, <2>2, <2>3, EntryIs
<1>6. CASE Drop(w)
  BY <1>1, <1>2, <1>6, DropKept, JobTyped
<1>7. CASE Goto(w, "ack") /\ Applied(x) /\ Proven(x)
  <2>1. ASSUME job'[w].pc = "ack", job'[w].entry = e PROVE JobKept(w)'
    <3>1. EntryKept(w)'
      BY <1>1, <1>3, <2>1 DEF EntryKept, At, Pinning, transport
    <3>2. DoneKept(w)'
      BY <1>1, <1>3, <1>5, <1>7, <2>1, AckReady DEF Proven
    <3>. QED BY <2>1, <3>1, <3>2 DEF JobKept, PinKept, Writing, Uncommitted, At
  <2>. QED BY <1>1, <1>2, <1>7, <2>1, GotoKept, JobTyped DEF PCs
<1>8. ASSUME NEW row, Readable, Verdict(Basis(x).state, x) = "ok",
             row = Outcome(x, "withdrawn", "withdrawn", 0, Reduced(Basis(x).state, x)),
             job' = [job EXCEPT ![w].before = point, ![w].head = Append(Basis(x).head, row),
                                ![w].want = NoPin, ![w].pc = "prepare"]
      PROVE  Inv'
  <2>2. /\ HeadKept(Append(Basis(x).head, row), pinned, withdrawn) /\ row.op.id = x.id
        /\ x.version = Len(Basis(x).head) + 1 /\ row.disposition = "withdrawn"
    BY <1>5, <1>8, BasisIs, WithdrawnTop
  <2>3. Basis(x).head = point.head
    BY BasisIs
  <2>. QED BY <1>1, <1>3, <1>5, <1>8, <2>2, <2>3, PreparedKept
<1>9. \/ Drop(w)
      \/ Goto(w, "ack") /\ Applied(x) /\ Proven(x)
      \/ \E row : /\ Readable /\ Verdict(Basis(x).state, x) = "ok"
                   /\ row = Outcome(x, "withdrawn", "withdrawn", 0, Reduced(Basis(x).state, x))
                   /\ job' = [job EXCEPT ![w].before = point, ![w].head = Append(Basis(x).head, row),
                                         ![w].want = NoPin, ![w].pc = "prepare"]
  <2>. DEFINE st == Basis(x).state
              row0 == Outcome(x, "withdrawn", "withdrawn", 0, Reduced(st, x))
  <2>1. CASE Readable /\ ~Applied(x) /\ (point = NoPoint => x.genesis) /\ Verdict(st, x) = "ok"
    <3>1. Prepared(w, {row0}, Basis(x))
      BY <1>4, <2>1 DEF Attest
    <3>2. \E row \in {row0} :
             job' = [job EXCEPT ![w].before = point, ![w].head = Append(Basis(x).head, row),
                                ![w].want = NoPin, ![w].pc = "prepare"]
      BY <3>1 DEF Prepared
    <3>. QED BY <2>1, <3>2
  <2>2. CASE ~(Readable /\ ~Applied(x) /\ (point = NoPoint => x.genesis) /\ Verdict(st, x) = "ok")
    BY <1>4, <2>2 DEF Attest
  <2>. QED BY <2>1, <2>2
<1>. QED BY <1>6, <1>7, <1>8, <1>9

----------------------------------------------------------------------------
(* The journal row, its dead-letter copy, the last checks. *)

LEMMA DraftGoes ==
  ASSUME Inv, NEW w \in Workers, Uncommitted(w), NEW pc \in {"bury", "check", "commit"}, Goto(w, pc),
         UNCHANGED <<transport, guard, frozen, reserved, pinned, point, acted>>,
         prepared \subseteq prepared', dead \subseteq dead', job[w].head \in prepared',
         pc # "bury" => Top(w).disposition = "applied" \/ job[w].head \in dead'
  PROVE  Inv'
<1>1. Grows /\ frozen' = frozen /\ pinned' = pinned
  BY DEF Grows, Keep, transport
<1>2. EntryKept(w) /\ TopKept(w) /\ DraftKept(w)
  BY DEF Inv, JobsKept, JobKept, Uncommitted, Writing, At
<1>3. ASSUME job'[w].pc = pc, job'[w].entry = job[w].entry, job'[w].before = job[w].before,
             job'[w].head = job[w].head
      PROVE  JobKept(w)'
  <2>1. EntryKept(w)'
    BY <1>2, <1>3 DEF EntryKept, At, Pinning, transport
  <2>2. TopKept(w)'
    BY <1>2, <1>3 DEF TopKept, Top, Withdraws, transport
  <2>3. Recorded(job[w].head, Len(job[w].head) - 1, prepared', dead')
    BY <1>2, RecordedStays DEF DraftKept
  <2>4. DraftKept(w)'
    BY <1>2, <1>3, <2>3 DEF DraftKept, Top, Withdraws, At
  <2>. QED BY <1>3, <2>1, <2>2, <2>4 DEF JobKept, PinKept, Writing, Uncommitted, Finished, At
<1>4. pc \in PCs
  BY DEF PCs
<1>. QED BY <1>1, <1>3, <1>4, GotoKept, JobTyped

LEMMA PrepareKept == ASSUME Inv, NEW w \in Workers, Prepare(w) PROVE Inv'
<1>1. Uncommitted(w) /\ prepared' = prepared \cup {job[w].head}
      /\ UNCHANGED <<transport, guard, frozen, reserved, pinned, dead, point, acted>>
  BY DEF Prepare, Uncommitted, At
<1>2. CASE Top(w).disposition # "applied"
  BY <1>1, <1>2, DraftGoes DEF Prepare
<1>3. CASE Top(w).disposition = "applied"
  BY <1>1, <1>3, DraftGoes DEF Prepare
<1>. QED BY <1>2, <1>3

LEMMA BuryKept == ASSUME Inv, NEW w \in Workers, Bury(w) PROVE Inv'
<1>1. /\ Uncommitted(w) /\ job[w].head \in prepared
      /\ UNCHANGED <<transport, guard, frozen, reserved, pinned, prepared, point, acted>>
  BY DEF Bury, Uncommitted, At, Inv, JobsKept, JobKept, DraftKept
<1>2. CASE dead' = dead \cup {job[w].head} /\ Goto(w, "check")
  BY <1>1, <1>2, DraftGoes
<1>3. CASE dead' = dead /\ Drop(w)
  <2>1. Grows
    BY <1>1, <1>3, GrowsSame DEF transport
  <2>. QED BY <1>1, <1>3, <2>1, DropKept, JobTyped
<1>. QED BY <1>2, <1>3 DEF Bury

LEMMA CheckKept == ASSUME Inv, NEW w \in Workers, Check(w) PROVE Inv'
<1>1. /\ Uncommitted(w) /\ job[w].head \in prepared
      /\ Top(w).disposition = "applied" \/ job[w].head \in dead
      /\ UNCHANGED <<transport, guard, journal, point, acted>>
  BY DEF Check, Uncommitted, At, Inv, JobsKept, JobKept, DraftKept
<1>2. CASE Goto(w, "commit")
  BY <1>1, <1>2, DraftGoes DEF journal
<1>3. CASE Drop(w)
  <2>1. Grows /\ frozen' = frozen /\ pinned' = pinned
    BY <1>1, GrowsSame DEF transport, journal
  <2>. QED BY <1>1, <1>3, <2>1, DropKept, JobTyped
<1>. QED BY <1>2, <1>3 DEF Check

LEMMA ConfirmKept == ASSUME Inv, NEW w \in Workers, Confirm(w) PROVE Inv'
<1>1. At(w, "confirm") /\ Guarded /\ UNCHANGED <<transport, journal, point, acted>>
  BY DEF Confirm
<1>2. Grows /\ frozen' = frozen /\ pinned' = pinned
  BY <1>1, GrowsGuarded DEF transport, journal
<1>3. EntryKept(w) /\ TopKept(w)
  BY <1>1 DEF Inv, JobsKept, JobKept, Writing, At
<1>4. CASE Drop(w)
  BY <1>1, <1>2, <1>4, DropKept, JobTyped
<1>5. CASE Goto(w, "settle") /\ point # NoPoint /\ point.head = job[w].head
  <2>1. ASSUME job'[w].pc = "settle", job'[w].entry = job[w].entry PROVE JobKept(w)'
    <3>1. EntryKept(w)'
      BY <1>1, <1>3, <2>1 DEF EntryKept, At, Pinning, transport
    <3>2. /\ Len(point.head) \in Nat /\ Len(point.head) = job[w].entry.version
          /\ point.head[Len(point.head)].op.id = job[w].entry.id
          /\ point.state = point.head[Len(point.head)].state
      BY <1>3, <1>5, SeqTyped DEF TopKept, Top, HeadKept, Inv, PointKept
    <3>3. point.state.ready => guard' = "initialized"
      BY <1>1, <1>5 DEF Guarded, Ready
    <3>4. DoneKept(w)'
      BY <1>1, <1>5, <2>1, <3>2, <3>3 DEF DoneKept
    <3>. QED BY <2>1, <3>1, <3>4 DEF JobKept, PinKept, Writing, Uncommitted, At
  <2>. QED BY <1>1, <1>2, <1>5, <2>1, GotoKept, JobTyped DEF PCs
<1>. QED BY <1>4, <1>5 DEF Confirm

LEMMA InterruptKept == ASSUME Inv, NEW w \in Workers, Interrupt(w) PROVE Inv'
<1>1. Drop(w) /\ UNCHANGED <<transport, guard, journal, point, acted>>
  BY DEF Interrupt
<1>2. Grows /\ frozen' = frozen /\ pinned' = pinned
  BY <1>1, GrowsSame DEF transport, journal
<1>. QED BY <1>1, <1>2, DropKept, JobTyped

----------------------------------------------------------------------------
(* The conditional write. *)

LEMMA DraftIs ==
  ASSUME Inv, NEW w \in Workers, At(w, "commit")
  PROVE  LET h == job[w].head
             n == Len(h)
         IN /\ EntryKept(w) /\ TopKept(w) /\ DraftKept(w)
            /\ HeadKept(h, pinned, withdrawn) /\ IsSeq(h) /\ n \in Nat \ {0}
            /\ n = job[w].entry.version /\ Top(w) = h[n] /\ RowKept(h, n, pinned, withdrawn)
            /\ n = Len(job[w].before.head) + 1 /\ Len(point.head) \in Nat /\ Len(acted) \in Nat
            /\ \A i \in 1..Len(job[w].before.head) : h[i] = job[w].before.head[i]
            /\ Recorded(h, n, prepared, dead)
<1>. DEFINE h == job[w].head
            n == Len(h)
<1>1. EntryKept(w) /\ TopKept(w) /\ DraftKept(w)
  BY DEF Inv, JobsKept, JobKept, Writing, Uncommitted, At
<1>2. /\ HeadKept(h, pinned, withdrawn) /\ IsSeq(h) /\ n = job[w].entry.version
      /\ n \in Nat \ {0}
  BY <1>1, EntryIs DEF TopKept, HeadKept, EntryKept
<1>3. RowKept(h, n, pinned, withdrawn)
  BY <1>2 DEF HeadKept
<1>4. Len(point.head) \in Nat /\ Len(acted) \in Nat
  BY SeqTyped DEF Inv, PointKept, ActedKept, HeadKept
<1>5. SubSeq(h, 1, n) = h
  BY <1>2, WholeSeq
<1>6. /\ Recorded(h, n - 1, prepared, dead) /\ h \in prepared
      /\ h[n].disposition # "applied" => h \in dead
  BY <1>1 DEF DraftKept, At, Top
<1>7. Recorded(h, n, prepared, dead)
  <2>1. \A m \in 1..n : m \in 1..(n - 1) \/ m = n
    BY <1>2
  <2>. QED BY <1>5, <1>6, <2>1 DEF Recorded
<1>. QED BY <1>1, <1>2, <1>3, <1>4, <1>7 DEF DraftKept, Top

(* Until somebody acted on a basis, a row that was acted on and lost is    *)
(* written again just as it was.                                           *)
LEMMA Again ==
  ASSUME Inv, NEW w \in Workers, At(w, "commit"), Unmoved(w),
         Len(point.head) < Len(acted)
  PROVE  /\ Withdraws(w) /\ ~Top(w).state.ready /\ ~Ready
         /\ acted[Len(job[w].head)] = job[w].head[Len(job[w].head)]
<1>. DEFINE h == job[w].head
            n == Len(h)
            x == h[n].op
            y == acted[n].op
<1>1. /\ DraftKept(w) /\ IsSeq(h) /\ n \in Nat \ {0} /\ Top(w) = h[n]
      /\ RowKept(h, n, pinned, withdrawn) /\ n = Len(point.head) + 1
      /\ Len(point.head) \in Nat /\ Len(acted) \in Nat
      /\ \A i \in 1..Len(point.head) : h[i] = point.head[i]
  BY DraftIs DEF Unmoved
<1>2. ~Ready /\ HeadKept(acted, pinned, withdrawn)
      /\ \A i \in 1..Len(acted) : i <= Len(point.head) => acted[i] = point.head[i]
  BY DEF Inv, ActedKept
<1>3. guard # "initialized"
  BY <1>1, <1>2 DEF Inv, PointKept, DraftKept
<1>4. Withdraws(w)
  BY <1>1 DEF DraftKept, Unmoved
<1>5. n \in 1..Len(acted) /\ Len(acted) \in 1..Len(acted)
  BY <1>1
<1>6. /\ RowKept(acted, n, pinned, withdrawn) /\ RowKept(acted, Len(acted), pinned, withdrawn)
      /\ ~acted[Len(acted)].state.ready
  BY <1>2, <1>3, <1>5 DEF HeadKept, Inv, ActedKept
<1>7. ~acted[n].state.ready
  BY <1>5, <1>6 DEF RowKept
<1>8. y.kind = "withdrawal" /\ WithdrawnRow(acted, n, withdrawn) /\ y.version = n
  BY <1>6, <1>7 DEF RowKept, LearnedRow
<1>9. x.kind = "withdrawal" /\ WithdrawnRow(h, n, withdrawn) /\ x.version = n
  BY <1>1, <1>4 DEF RowKept, Withdraws
<1>10. x = y
  BY <1>8, <1>9 DEF WithdrawnRow, Inv, TransportKept
<1>11. Below(acted, n).state = Below(h, n).state
  <2>1. CASE n = 1
    BY <1>10, <2>1 DEF Below
  <2>2. CASE n # 1
    <3>1. n - 1 \in 1..Len(point.head) /\ n - 1 \in 1..Len(acted) /\ n - 1 <= Len(point.head)
      BY <1>1, <1>5, <2>2
    <3>2. acted[n - 1] = h[n - 1]
      BY <1>1, <1>2, <3>1
    <3>. QED BY <2>2, <3>2 DEF Below
  <2>. QED BY <2>1, <2>2
<1>12. acted[n] = h[n]
  BY <1>8, <1>9, <1>10, <1>11 DEF WithdrawnRow
<1>. QED BY <1>1, <1>2, <1>4, <1>7, <1>12

LEMMA RowBelow ==
  ASSUME Inv, NEW w \in Workers, At(w, "commit"), Unmoved(w), Ready
  PROVE  Top(w).state.ready
<1>. DEFINE h == job[w].head
            n == Len(h)
<1>1. /\ n \in Nat \ {0} /\ Top(w) = h[n] /\ RowKept(h, n, pinned, withdrawn)
      /\ n = Len(point.head) + 1 /\ Len(point.head) \in Nat
      /\ \A i \in 1..Len(point.head) : h[i] = point.head[i]
  BY DraftIs DEF Unmoved
<1>2. Len(point.head) > 0 /\ point.head[Len(point.head)].state.ready
  BY DEF Ready, Inv, PointKept
<1>3. Len(point.head) \in 1..n /\ h[Len(point.head)].state.ready
  BY <1>1, <1>2
<1>. QED BY <1>1, <1>3 DEF RowKept

LEMMA CommitKept == ASSUME Inv, NEW w \in Workers, Commit(w) PROVE Inv'
<1>. DEFINE h == job[w].head
            n == Len(h)
            p == [head |-> h, state |-> Top(w).state]
            r == [job[w] EXCEPT !.before = NoPoint, !.pc = "confirm"]
<1>1. /\ At(w, "commit") /\ job' = [job EXCEPT ![w] = r]
      /\ UNCHANGED <<transport, guard, journal, acted>>
      /\ point' = IF Unmoved(w) THEN p ELSE point
  BY DEF Commit
<1>2. /\ EntryKept(w) /\ TopKept(w) /\ DraftKept(w)
      /\ HeadKept(h, pinned, withdrawn) /\ IsSeq(h) /\ n \in Nat \ {0}
      /\ Top(w) = h[n] /\ RowKept(h, n, pinned, withdrawn)
      /\ n = Len(job[w].before.head) + 1 /\ Len(point.head) \in Nat /\ Len(acted) \in Nat
      /\ Recorded(h, n, prepared, dead)
      /\ \A i \in 1..Len(job[w].before.head) : h[i] = job[w].before.head[i]
  BY <1>1, DraftIs
<1>3. UNCHANGED <<identities, withdrawn, stream, asked, frozen, pinned, prepared, dead>>
  BY <1>1 DEF transport, journal
<1>4. DOMAIN r = Fields /\ r.pc = "confirm" /\ r.entry = job[w].entry /\ r.head = h
  BY JobTyped DEF Fields
<1>. HIDE DEF r
<1>5. job'[w] = r /\ \A v \in Workers \ {w} : job'[v] = job[v]
  BY <1>1, JobTyped
<1>6. JobKept(w)'
  <2>1. EntryKept(w)'
    BY <1>1, <1>2, <1>3, <1>4, <1>5 DEF EntryKept, At, Pinning
  <2>2. TopKept(w)'
    BY <1>2, <1>3, <1>4, <1>5 DEF TopKept, Top, Withdraws
  <2>. QED BY <1>4, <1>5, <2>1, <2>2 DEF JobKept, PinKept, Writing, Uncommitted, Finished, At
<1>7. CASE ~Unmoved(w)
  <2>1. point' = point /\ Grows
    BY <1>1, <1>3, <1>7, GrowsSame
  <2>. QED BY <1>1, <1>3, <1>4, <1>6, <2>1, WorkerStep, JobTyped DEF PCs
<1>8. CASE Unmoved(w)
  <2>. DEFINE q == point
  <2>1. point' = p /\ q = job[w].before /\ n = Len(point.head) + 1
        /\ \A i \in 1..Len(point.head) : h[i] = point.head[i]
    BY <1>1, <1>2, <1>8 DEF Unmoved
  <2>2. point'.head = h /\ point'.state = h[n].state /\ point' # NoPoint
    <3>1. point'.head = h /\ point'.state = h[n].state
      BY <1>2, <2>1
    <3>2. NoPoint.head = <<>> /\ h # <<>>
      BY <1>2 DEF NoPoint
    <3>. QED BY <3>1, <3>2
  <2>. HIDE DEF p
  <2>3. Typed'
    <3>1. ASSUME NEW v \in Workers PROVE DOMAIN job'[v] = Fields /\ job'[v].pc \in PCs
      <4>1. CASE v = w
        BY <4>1, <1>4, <1>5 DEF PCs
      <4>2. CASE v # w
        BY <4>2, <1>5 DEF Inv, Typed
      <4>. QED BY <4>1, <4>2
    <3>2. DOMAIN job' = Workers
      BY <1>1, JobTyped
    <3>. QED BY <1>3, <3>1, <3>2 DEF Inv, Typed
  <2>4. TransportKept' /\ AckedKept'
    BY <1>1, <1>3 DEF Inv, TransportKept, AckedKept, SettledFor
  <2>5. PointKept'
    <3>1. StateTyped(h[n].state) /\ h[n].state.op = n
      BY <1>2 DEF RowKept
    <3>2. guard = "initialized" => h[n].state.ready
      <4>1. guard = "initialized" => Ready
        BY <1>2, <2>1 DEF Inv, PointKept, DraftKept
      <4>. QED BY <1>1, <1>2, <1>8, <4>1, RowBelow
    <3>3. HeadKept(h, pinned', withdrawn') /\ Recorded(h, n, prepared', dead')
      BY <1>2, <1>3
    <3>4. PICK g, st : g = h /\ st = h[n].state
      OBVIOUS
    <3>5. /\ point'.head = g /\ point'.state = st /\ point' # NoPoint /\ st = g[Len(g)].state
      BY <2>2, <3>4
    <3>6. HeadKept(g, pinned', withdrawn') /\ Recorded(g, Len(g), prepared', dead')
      BY <3>3, <3>4
    <3>7. StateTyped(st) /\ st.op = Len(g) /\ Len(g) > 0
      <4>1. n > 0
        BY <1>2
      <4>. QED BY <3>1, <3>4, <4>1
    <3>8. guard' = "initialized" => st.ready
      BY <1>1, <3>2, <3>4
    <3>. QED BY <3>5, <3>6, <3>7, <3>8 DEF PointKept, Ready
  <2>6. ActedKept'
    <3>1. HeadKept(acted, pinned', withdrawn') /\ Recorded(acted, Len(acted), prepared', dead')
      BY <1>3 DEF Inv, ActedKept
    <3>2. ASSUME NEW i \in 1..Len(acted), i <= n PROVE acted[i] = h[i]
      <4>1. CASE i <= Len(point.head)
        BY <1>2, <2>1, <4>1 DEF Inv, ActedKept
      <4>2. CASE i > Len(point.head)
        <5>1. i = n /\ Len(point.head) < Len(acted)
          BY <1>2, <2>1, <3>2, <4>2
        <5>. QED BY <1>1, <1>8, <5>1, Again
      <4>. QED BY <1>2, <4>1, <4>2
    <3>3. n < Len(acted) => ~h[n].state.ready
      BY <1>1, <1>2, <1>8, <2>1, Again
    <3>. QED BY <1>1, <1>3, <2>2, <3>1, <3>2, <3>3 DEF ActedKept, Inv, Ready
  <2>7. ASSUME NEW v \in Workers PROVE JobKept(v)'
    <3>1. CASE v = w
      BY <3>1, <1>6
    <3>2. CASE v # w
      <4>1. job'[v] = job[v] /\ JobKept(v)
        BY <1>5, <3>2 DEF Inv, JobsKept
      <4>2. /\ At(v, "idle")' = At(v, "idle") /\ Writing(v)' = Writing(v)
            /\ Uncommitted(v)' = Uncommitted(v) /\ Finished(v)' = Finished(v)
        BY <4>1 DEF At, Writing, Uncommitted, Finished
      <4>3. (EntryKept(v) => EntryKept(v)') /\ (PinKept(v) => PinKept(v)')
        BY <1>3, <4>1 DEF EntryKept, PinKept, At, Pinning, Withdrawing
      <4>4. TopKept(v) => TopKept(v)'
        BY <1>3, <4>1 DEF TopKept, Top, Withdraws
      <4>5. ASSUME DraftKept(v) PROVE DraftKept(v)'
        <5>1. Len(job[v].before.head) \in Nat /\ Len(job[v].before.head) <= Len(point.head)
          BY <4>5, SeqTyped DEF DraftKept
        <5>2. PICK g, c : g = h /\ c = job[v].before
          OBVIOUS
        <5>3. Len(g) = Len(point.head) + 1
          BY <2>1, <5>2
        <5>4. g # c.head /\ Len(c.head) <= Len(g)
          BY <1>2, <5>1, <5>2, <5>3
        <5>5. point'.head = g /\ point' # c /\ point' # NoPoint
          BY <2>2, <5>2, <5>4
        <5>6. job'[v].before = c /\ job'[v].head = job[v].head /\ job'[v].pc = job[v].pc
          BY <4>1, <5>2
        <5>7. Recorded(job[v].head, Len(job[v].head) - 1, prepared', dead')
          BY <1>3, <4>5 DEF DraftKept
        <5>8. Top(v)' = Top(v)
          BY <5>6 DEF Top
        <5>9. /\ ~At(v, "prepare") => job[v].head \in prepared
              /\ At(v, "check") \/ At(v, "commit") =>
                   Top(v).disposition = "applied" \/ job[v].head \in dead
              /\ IsSeq(c.head) /\ Len(job[v].head) = Len(c.head) + 1
              /\ \A i \in 1..Len(c.head) : job[v].head[i] = c.head[i]
          BY <4>5, <5>2 DEF DraftKept
        <5>. QED BY <1>3, <5>4, <5>5, <5>6, <5>7, <5>8, <5>9 DEF DraftKept, At
      <4>6. ASSUME ~At(v, "idle"), EntryKept(v), DoneKept(v) PROVE DoneKept(v)'
        <5>1. job[v].entry.version \in 1..Len(point.head)
          BY <1>2, <4>6, EntryIs DEF EntryKept, DoneKept
        <5>2. point'.head[job[v].entry.version] = point.head[job[v].entry.version]
          BY <2>1, <2>2, <5>1
        <5>3. job[v].entry.version <= Len(point'.head)
          BY <1>2, <2>1, <2>2, <5>1
        <5>. QED BY <1>1, <2>2, <4>1, <4>6, <5>2, <5>3 DEF DoneKept
      <4>7. Finished(v) => ~At(v, "idle")
        BY DEF Finished, At
      <4>. QED BY <4>1, <4>2, <4>3, <4>4, <4>5, <4>6, <4>7 DEF JobKept
    <3>. QED BY <3>1, <3>2
  <2>. QED BY <2>3, <2>4, <2>5, <2>6, <2>7 DEF Inv, JobsKept
<1>. QED BY <1>7, <1>8

----------------------------------------------------------------------------
(* Somebody acts on the first n rows. *)

LEMMA ActedOnKept ==
  ASSUME Inv, NEW n \in 1..Len(point.head), ActedOn(n), point' = point, Grows,
         point.head[n].state.ready => guard' = "initialized"
  PROVE  /\ ActedKept' /\ Acting /\ n <= Len(acted') /\ acted'[n] = point.head[n]
         /\ Len(acted) \in Nat /\ Len(acted') \in Nat /\ Len(acted) <= Len(acted')
         /\ \A i \in 1..Len(acted) : acted'[i] = acted[i]
<1>. DEFINE p == point.head
<1>1. /\ HeadKept(p, pinned, withdrawn) /\ IsSeq(p) /\ Len(p) \in Nat
      /\ Recorded(p, Len(p), prepared, dead)
      /\ IsSeq(acted) /\ Len(acted) \in Nat
      /\ (\A i \in 1..Len(acted) : i <= Len(p) => acted[i] = p[i])
  BY SeqTyped DEF Inv, PointKept, ActedKept, HeadKept
<1>2. CASE n > Len(acted)
  <2>. DEFINE a == SubSeq(p, 1, n)
  <2>1. acted' = a
    BY <1>2 DEF ActedOn
  <2>2. IsSeq(a) /\ Len(a) = n /\ \A i \in 1..n : a[i] = p[i]
    BY <1>1, SubSeqTyped
  <2>3. HeadKept(a, pinned', withdrawn')
    <3>1. HeadKept(a, pinned, withdrawn)
      BY <1>1, PrefixKept
    <3>. HIDE DEF a
    <3>. QED BY <3>1, HeadStays DEF Grows
  <2>. HIDE DEF a
  <2>4. Recorded(a, n, prepared', dead')
    <3>1. PICK h : h = p
      OBVIOUS
    <3>2. Recorded(h, n, prepared, dead)
      BY <1>1, <3>1 DEF Recorded
    <3>3. IsSeq(h) /\ n \in Nat /\ n <= Len(h) /\ n <= Len(a) /\ \A i \in 1..n : h[i] = a[i]
      BY <1>1, <2>2, <3>1
    <3>4. Recorded(a, n, prepared, dead)
      BY <2>2, <3>2, <3>3, RecordedSame
    <3>. QED BY <3>4, RecordedStays DEF Grows
  <2>5. a[n].state.ready => guard' = "initialized"
    BY <2>2
  <2>6. ActedKept'
    <3>1. \A i \in 1..Len(a) : i <= Len(p) => a[i] = p[i]
      BY <2>2
    <3>2. ~(Len(p) < Len(a))
      BY <1>1, <2>2
    <3>. QED BY <2>1, <2>2, <2>3, <2>4, <2>5, <3>1, <3>2 DEF ActedKept
  <2>7. \A i \in 1..Len(acted) : a[i] = acted[i]
    BY <1>1, <1>2, <2>2
  <2>. QED BY <1>1, <1>2, <2>1, <2>2, <2>6, <2>7 DEF Acting
<1>3. CASE n <= Len(acted)
  <2>1. acted' = acted
    BY <1>1, <1>3 DEF ActedOn
  <2>2. ActedKept'
    BY <2>1, ActedStays DEF Inv
  <2>. QED BY <1>1, <1>3, <2>1, <2>2 DEF Acting
<1>. QED BY <1>1, <1>2, <1>3

LEMMA SettleKept == ASSUME Inv, NEW w \in Workers, Settle(w) PROVE Inv'
<1>. DEFINE e == job[w].entry
            n == e.version
<1>1. /\ Finished(w) /\ Drop(w)
      /\ UNCHANGED <<identities, withdrawn, asked, guard, journal, point, faults>>
  BY DEF Settle, Finished
<1>2. Grows /\ frozen' = frozen /\ pinned' = pinned
  BY <1>1, GrowsSame DEF journal
<1>3. CASE UNCHANGED <<stream, acted>>
  BY <1>1, <1>2, <1>3, DropKept, JobTyped DEF transport
<1>4. CASE stream' = stream \ {e} /\ ActedOn(n)
  <2>1. EntryKept(w) /\ DoneKept(w)
    BY <1>1 DEF Inv, JobsKept, JobKept, Finished, At
  <2>2. /\ n \in 1..Len(point.head) /\ e \in Entries /\ point.head[n].op.id = e.id
        /\ point.head[n].state.ready => guard' = "initialized"
    <3>1. Len(point.head) \in Nat
      BY SeqTyped DEF Inv, PointKept, HeadKept
    <3>. QED BY <1>1, <2>1, <3>1, EntryIs DEF EntryKept, DoneKept
  <2>3. /\ ActedKept' /\ Acting /\ n <= Len(acted') /\ acted'[n].op.id = e.id
        /\ Len(acted) \in Nat /\ Len(acted') \in Nat /\ Len(acted) <= Len(acted')
        /\ \A i \in 1..Len(acted) : acted'[i] = acted[i]
    <3>1. PICK m : m = n
      OBVIOUS
    <3>2. /\ m \in 1..Len(point.head) /\ ActedOn(m) /\ point' = point /\ Grows
          /\ point.head[m].op.id = e.id
          /\ point.head[m].state.ready => guard' = "initialized"
      BY <1>1, <1>2, <1>4, <2>2, <3>1 DEF ActedOn
    <3>3. /\ ActedKept' /\ Acting /\ m <= Len(acted') /\ acted'[m] = point.head[m]
          /\ Len(acted) \in Nat /\ Len(acted') \in Nat /\ Len(acted) <= Len(acted')
          /\ \A i \in 1..Len(acted) : acted'[i] = acted[i]
      BY <3>2, ActedOnKept
    <3>. QED BY <3>1, <3>2, <3>3
  <2>4. job' = [job EXCEPT ![w] = IdleJob] /\ DOMAIN IdleJob = Fields /\ IdleJob.pc = "idle"
    BY <1>1 DEF Drop, IdleJob, Fields
  <2>5. job'[w].pc = "idle" /\ DOMAIN job'[w] = Fields /\ DOMAIN job' = Workers
        /\ \A v \in Workers \ {w} : job'[v] = job[v]
    BY <2>4, JobTyped
  <2>6. Typed'
    <3>1. ASSUME NEW v \in Workers PROVE DOMAIN job'[v] = Fields /\ job'[v].pc \in PCs
      BY <2>5 DEF Inv, Typed, PCs
    <3>. QED BY <1>1, <1>4, <2>5, <3>1 DEF Inv, Typed, journal
  <2>7. TransportKept'
    BY <1>1, <1>4 DEF Inv, TransportKept
  <2>8. AckedKept'
    <3>1. \A c \in Entries : SettledFor(c) => SettledFor(c)'
      BY <2>3, EntryIs DEF SettledFor
    <3>2. \A c \in Entries : c.id = e.id => SettledFor(c)'
      <4>1. ASSUME NEW c \in Entries, c.id = e.id PROVE c.version = n
        BY <2>2, <4>1, SameVersion
      <4>. QED BY <2>3, <4>1 DEF SettledFor
    <3>3. withdrawn \subseteq Entries /\ identities \subseteq Entries
      BY DEF Inv, Typed, Entries
    <3>4. ASSUME NEW x \in withdrawn' \ stream' PROVE SettledFor(x)'
      <4>1. x \in withdrawn /\ x \in Entries /\ (x \notin stream \/ x = e)
        BY <1>1, <1>4, <3>3
      <4>2. CASE x = e
        BY <2>2, <3>2, <4>2
      <4>3. CASE x \notin stream
        <5>1. SettledFor(x)
          BY <4>1, <4>3 DEF Inv, AckedKept
        <5>. QED BY <3>1, <4>1, <5>1
      <4>. QED BY <4>1, <4>2, <4>3
    <3>5. ASSUME NEW o \in identities', \A c \in stream' : c.id # o.id PROVE SettledFor(o)'
      <4>1. o \in identities /\ (o.id = e.id \/ \A c \in stream : c.id # o.id)
        BY <1>1, <1>4, <3>5
      <4>. QED BY <3>1, <3>2, <3>3, <4>1 DEF Inv, AckedKept
    <3>. QED BY <3>4, <3>5 DEF AckedKept
  <2>9. PointKept'
    BY <1>1, <1>2, PointStays DEF Inv
  <2>10. ASSUME NEW v \in Workers PROVE JobKept(v)'
    <3>1. CASE v = w
      BY <2>5, <3>1 DEF JobKept, PinKept, Writing, Uncommitted, Finished, At
    <3>2. CASE v # w
      BY <1>1, <1>2, <2>3, <2>5, <3>2, JobStays
    <3>. QED BY <3>1, <3>2
  <2>. QED BY <2>3, <2>6, <2>7, <2>8, <2>9, <2>10 DEF Inv, JobsKept
<1>. QED BY <1>3, <1>4 DEF Settle

LEMMA ServeKept == ASSUME Inv, Serve PROVE Inv'
<1>. DEFINE n == Len(point.head)
<1>1. /\ Ready /\ Guarded /\ ActedOn(n)
      /\ UNCHANGED <<transport, journal, point, job>>
  BY DEF Serve
<1>2. Grows
  BY <1>1, GrowsGuarded DEF transport, journal
<1>3. n \in 1..Len(point.head) /\ guard' = "initialized"
  BY <1>1, SeqTyped DEF Inv, PointKept, HeadKept, Ready, Guarded
<1>4. /\ ActedKept' /\ Acting /\ Len(acted) \in Nat /\ Len(acted) <= Len(acted')
      /\ \A i \in 1..Len(acted) : acted'[i] = acted[i]
      /\ Len(acted') \in Nat
  BY <1>1, <1>2, <1>3, ActedOnKept
<1>5. Typed' /\ TransportKept'
  BY <1>1 DEF Inv, Typed, TransportKept, transport, journal
<1>6. AckedKept'
  <2>1. \A c \in Entries : SettledFor(c) => SettledFor(c)'
    BY <1>4, EntryIs DEF SettledFor
  <2>2. withdrawn \subseteq Entries /\ identities \subseteq Entries
    BY DEF Inv, Typed, Entries
  <2>3. UNCHANGED <<withdrawn, identities, stream>>
    BY <1>1 DEF transport
  <2>. QED BY <2>1, <2>2, <2>3 DEF Inv, AckedKept
<1>7. PointKept'
  BY <1>1, <1>2, PointStays DEF Inv
<1>8. ASSUME NEW v \in Workers PROVE JobKept(v)'
  BY <1>1, <1>2, <1>4, JobStays
<1>. QED BY <1>4, <1>5, <1>6, <1>7, <1>8 DEF Inv, JobsKept

LEMMA NoRows == /\ IsSeq(<<>>) /\ Len(<<>>) = 0 /\ \A pins, wds : HeadKept(<<>>, pins, wds)
                /\ \A prep, dd : Recorded(<<>>, 0, prep, dd)
                /\ NoPoint.head = <<>> /\ StateTyped(NoPoint.state) /\ NoPoint.state.op = 0
                /\ ~NoPoint.state.ready
<1>1. \A pins, wds : HeadKept(<<>>, pins, wds)
  <2>. SUFFICES ASSUME NEW pins, NEW wds PROVE HeadKept(<<>>, pins, wds)
    OBVIOUS
  <2>1. \A n \in 1..Len(<<>>) : FALSE
    BY EmptyTyped
  <2>. QED BY <2>1, EmptyTyped DEF HeadKept
<1>2. \A prep, dd : Recorded(<<>>, 0, prep, dd)
  <2>. SUFFICES ASSUME NEW prep, NEW dd PROVE Recorded(<<>>, 0, prep, dd)
    OBVIOUS
  <2>1. \A n \in 1..0 : FALSE
    OBVIOUS
  <2>. QED BY <2>1 DEF Recorded
<1>. QED BY <1>1, <1>2, EmptyTyped DEF NoPoint, Prefix, StateTyped

LEMMA LoseKept == ASSUME Inv, LosePoint PROVE Inv'
<1>1. /\ point' = NoPoint /\ \A w \in Workers : At(w, "idle")
      /\ UNCHANGED <<transport, guard, journal, job, acted>>
  BY DEF LosePoint
<1>2. Typed' /\ TransportKept' /\ AckedKept'
  BY <1>1 DEF Inv, Typed, TransportKept, AckedKept, SettledFor, transport, journal
<1>3. PointKept'
  <2>1. /\ HeadKept(NoPoint.head, pinned', withdrawn')
        /\ Recorded(NoPoint.head, Len(NoPoint.head), prepared', dead')
        /\ StateTyped(NoPoint.state) /\ NoPoint.state.op = Len(NoPoint.head)
    BY NoRows
  <2>. QED BY <1>1, <2>1 DEF PointKept
<1>4. ActedKept'
  <2>1. \A i \in 1..Len(acted) : ~(i <= 0)
    OBVIOUS
  <2>2. UNCHANGED <<acted, guard, pinned, withdrawn, prepared, dead>>
    BY <1>1 DEF transport, journal
  <2>3. /\ HeadKept(acted, pinned, withdrawn) /\ Recorded(acted, Len(acted), prepared, dead)
        /\ Len(acted) > 0 /\ acted[Len(acted)].state.ready => guard = "initialized"
    BY DEF Inv, ActedKept
  <2>4. Len(NoPoint.head) = 0
    BY NoRows
  <2>. QED BY <1>1, <2>1, <2>2, <2>3, <2>4 DEF ActedKept, Ready
<1>5. ASSUME NEW v \in Workers PROVE JobKept(v)'
  BY <1>1 DEF JobKept, PinKept, Writing, Uncommitted, Finished, At
<1>. QED BY <1>2, <1>3, <1>4, <1>5 DEF Inv, JobsKept

----------------------------------------------------------------------------
LEMMA InitInv == Init => Inv
<1>. SUFFICES ASSUME Init PROVE Inv
  OBVIOUS
<1>1. Typed
  <2>1. DOMAIN IdleJob = Fields /\ IdleJob.pc = "idle"
    BY DEF IdleJob, Fields
  <2>. HIDE DEF IdleJob
  <2>. QED BY <2>1 DEF Init, Typed, PCs
<1>2. TransportKept /\ AckedKept
  BY DEF Init, TransportKept, AckedKept
<1>3. PointKept /\ ActedKept
  BY NoRows DEF Init, PointKept, ActedKept, Ready
<1>4. ASSUME NEW w \in Workers PROVE JobKept(w)
  <2>1. job[w].pc = "idle"
    BY DEF Init, IdleJob
  <2>. QED BY <2>1 DEF JobKept, PinKept, Writing, Uncommitted, Finished, At
<1>. QED BY <1>1, <1>2, <1>3, <1>4 DEF Inv, JobsKept

LEMMA NextInv == Inv /\ [Next]_vars => Inv'
<1>. SUFFICES ASSUME Inv, [Next]_vars PROVE Inv'
  OBVIOUS
<1>1. ASSUME NEW e \in Entries, Admit(e) PROVE Inv'
  BY <1>1, AdmitKept
<1>2. ASSUME NEW p \in Producers, Recover(p) \/ \E e \in Entries : Ask(p, e) PROVE Inv'
  BY <1>2, RecoverKept, AskKept
<1>3. ASSUME NEW w \in Workers, Interrupt(w) \/ \E e \in Entries : Take(w, e) PROVE Inv'
  BY <1>3, InterruptKept, TakeKept
<1>4. ASSUME NEW w \in Workers, Step(w) PROVE Inv'
  BY <1>4, LookKept, LookupKept, PinStepKept, FetchKept, ReserveKept, CopyOverKept, RefundKept,
     ReadKept, AttestKept, PrepareKept, BuryKept, CheckKept, CommitKept, ConfirmKept, SettleKept
     DEF Step
<1>5. CASE Serve \/ LosePoint
  BY <1>5, ServeKept, LoseKept
<1>6. CASE UNCHANGED vars
  <2>1. UNCHANGED <<identities, withdrawn, stream, asked, guard, frozen, reserved, pinned, prepared,
                    dead, point, job, acted>>
    BY <1>6 DEF vars, transport, journal
  <2>2. Typed' /\ TransportKept' /\ AckedKept'
    BY <2>1 DEF Inv, Typed, TransportKept, AckedKept, SettledFor
  <2>3. Grows
    BY <2>1, GrowsSame
  <2>4. PointKept' /\ ActedKept'
    BY <2>1, <2>3, PointStays, ActedStays DEF Inv
  <2>5. ASSUME NEW w \in Workers PROVE JobKept(w)'
    BY <2>1, <2>3, JobStays DEF Acting
  <2>. QED BY <2>2, <2>4, <2>5 DEF Inv, JobsKept
<1>. QED BY <1>1, <1>2, <1>3, <1>4, <1>5, <1>6 DEF Next

(* Every step keeps the rows, the heads, the acted rows, the guard and the  *)
(* drafts as Inv describes them, for any number of workers, producers,     *)
(* operations, faults and repeated deliveries.                             *)
THEOREM JournalInvariant == Spec => []Inv
BY InitInv, NextInv, PTL DEF Spec

----------------------------------------------------------------------------
(* The committed rows are the point's, or those acted on before it was     *)
(* lost, whichever go further.                                             *)
LEMMA TipIs ==
  ASSUME Inv
  PROVE  /\ Len(point.head) \in Nat /\ Len(acted) \in Nat /\ IsSeq(point.head) /\ IsSeq(acted)
         /\ Len(acted) <= Len(point.head) => Tip = point.head
         /\ Len(point.head) < Len(acted) => Tip = acted
         /\ Len(acted) <= Len(Tip) /\ \A i \in 1..Len(acted) : Tip[i] = acted[i]
<1>1. /\ Len(point.head) \in Nat /\ Len(acted) \in Nat /\ IsSeq(point.head) /\ IsSeq(acted)
      /\ \A i \in 1..Len(acted) : i <= Len(point.head) => acted[i] = point.head[i]
      /\ Len(point.head) < Len(acted) => ~Ready
  BY SeqTyped DEF Inv, PointKept, ActedKept, HeadKept
<1>2. CASE Len(acted) <= Len(point.head)
  <2>1. \A i \in 1..Len(acted) : point.head[i] = acted[i]
    BY <1>1, <1>2
  <2>2. CASE point = NoPoint \/ (~Ready /\ IsPrefix(point.head, acted))
    <3>1. Len(point.head) <= Len(acted)
      BY <1>1, <2>2, NoRows, PrefixOf
    <3>2. acted = point.head
      BY <1>1, <1>2, <2>1, <3>1, SameSeq
    <3>. QED BY <1>1, <1>2, <2>2, <3>2 DEF Tip
  <2>3. CASE ~(point = NoPoint \/ (~Ready /\ IsPrefix(point.head, acted)))
    <3>1. Tip = point.head
      BY <2>3 DEF Tip
    <3>. QED BY <1>1, <1>2, <2>1, <3>1
  <2>. QED BY <2>2, <2>3
<1>3. CASE Len(point.head) < Len(acted)
  <2>1. \A i \in 1..Len(point.head) : point.head[i] = acted[i]
    BY <1>1, <1>3
  <2>2. ~Ready /\ IsPrefix(point.head, acted)
    BY <1>1, <1>3, <2>1, PrefixOf
  <2>3. Tip = acted
    BY <2>2 DEF Tip
  <2>. QED BY <1>1, <1>3, <2>3
<1>. QED BY <1>1, <1>2, <1>3

(* The same, of the state after a step. *)
TipRule == /\ Len(acted) <= Len(point.head) => Tip = point.head
           /\ Len(point.head) < Len(acted) => Tip = acted
LEMMA TipRuled == Inv => TipRule
BY TipIs DEF TipRule

LEMMA TipKept ==
  ASSUME Inv
  PROVE  HeadKept(Tip, pinned, withdrawn) /\ Recorded(Tip, Len(Tip), prepared, dead)
<1>1. Tip = point.head \/ Tip = acted
  BY TipIs
<1>. QED BY <1>1 DEF Inv, PointKept, ActedKept

LEMMA InvRebuildable == Inv => Rebuildable
<1>. SUFFICES ASSUME Inv, NEW n \in 1..Len(Tip) PROVE Tip[n].op.version = n /\ Replayed(Tip, n)
  BY DEF Rebuildable
<1>1. PICK h : h = Tip
  OBVIOUS
<1>2. RowKept(h, n, pinned, withdrawn)
  BY <1>1, TipKept DEF HeadKept
<1>3. CASE h[n].op.kind = "withdrawal"
  BY <1>1, <1>2, <1>3 DEF RowKept, WithdrawnRow, Replayed, Below, Outcome
<1>4. CASE h[n].op.kind # "withdrawal"
  <2>1. LearnedRow(h, n, pinned)
    BY <1>2, <1>4 DEF RowKept
  <2>. QED BY <1>1, <1>2, <1>4, <2>1 DEF RowKept, LearnedRow, Replayed, Below
<1>. QED BY <1>3, <1>4

LEMMA InvComplete == Inv => JournalComplete
BY TipKept DEF JournalComplete, Recorded

LEMMA InvAcked == Inv => AckedSettled
<1>. SUFFICES ASSUME Inv PROVE AckedSettled
  OBVIOUS
<1>1. withdrawn \subseteq Entries /\ identities \subseteq Entries
  BY DEF Inv, Typed, Entries
<1>2. ASSUME NEW e \in Entries, SettledFor(e) PROVE Settled(e)
  <2>1. e.version \in Nat \ {0} /\ e.version <= Len(acted)
    BY <1>2, EntryIs DEF SettledFor
  <2>2. e.version \in 1..Len(acted) /\ e.version <= Len(Tip)
    <3>1. Len(Tip) \in Nat
      BY TipIs
    <3>. QED BY <2>1, <3>1, TipIs
  <2>. QED BY <1>2, <2>2, TipIs DEF Settled, SettledFor
<1>3. ASSUME NEW x \in withdrawn \ stream PROVE Settled(x)
  BY <1>1, <1>2, <1>3 DEF Inv, AckedKept
<1>4. ASSUME NEW o \in identities, \A e \in stream : e.id # o.id PROVE Settled(o)
  BY <1>1, <1>2, <1>4 DEF Inv, AckedKept
<1>. QED BY <1>3, <1>4 DEF AckedSettled

(* Whatever workers, repeated deliveries, failed calls and the loss of the  *)
(* point do, replaying the committed rows with the pinned inputs leads to  *)
(* the committed states, every committed head is in the journal with its   *)
(* dead-letter copies, and an entry leaves the stream only once its own    *)
(* identity is committed at its version.                                   *)
THEOREM JournalTheorem == Spec => []JournalSound
<1>1. Inv => JournalSound
  BY InvRebuildable, InvComplete, InvAcked DEF JournalSound
<1>. QED BY <1>1, JournalInvariant, PTL

----------------------------------------------------------------------------
(* What a step does to the committed rows. *)

Grown(w) == /\ At(w, "commit") /\ acted' = acted
            /\ Tip' = Append(Tip, Top(w)) /\ Top(w).op.version = Len(Tip) + 1
            /\ Top(w).op.id \in Ids /\ Top(w).disposition \in Kinds
ActedFurther == Tip' = Tip /\ Len(acted') \in Len(acted)..Len(Tip)
FellBack == Tip' = acted /\ acted' = acted

LEMMA TipOfActed ==
  ASSUME Inv, Inv', point' = point, NEW n \in 1..Len(point.head), ActedOn(n), Grows,
         point.head[n].state.ready => guard' = "initialized"
  PROVE  ActedFurther
<1>1. /\ Len(acted) \in Nat /\ Len(acted') \in Nat /\ Len(acted) <= Len(acted')
      /\ Len(point.head) \in Nat /\ (acted' = acted \/ Len(acted') <= Len(point.head))
  BY ActedOnKept, TipIs DEF Acting
<1>2. CASE acted' = acted
  <2>1. Tip' = Tip
    BY <1>2 DEF Tip, Ready
  <2>2. Len(Tip) \in Nat /\ Len(acted) <= Len(Tip)
    BY TipIs
  <2>. QED BY <1>1, <1>2, <2>1, <2>2 DEF ActedFurther
<1>3. CASE Len(acted') <= Len(point.head)
  <2>1. Tip = point.head
    BY <1>1, <1>3, TipIs
  <2>2. TipRule'
    BY TipRuled, PTL
  <2>3. Tip' = point.head
    BY <1>3, <2>2 DEF TipRule
  <2>. QED BY <1>1, <1>3, <2>1, <2>3 DEF ActedFurther
<1>. QED BY <1>1, <1>2, <1>3

LEMMA TipStill ==
  ASSUME Inv, UNCHANGED <<point, acted>>
  PROVE  ActedFurther
<1>1. Tip' = Tip
  BY DEF Tip, Ready
<1>2. Len(Tip) \in Nat /\ Len(acted) \in Nat /\ Len(acted) <= Len(Tip)
  BY TipIs
<1>. QED BY <1>1, <1>2 DEF ActedFurther

LEMMA TipOfCommit ==
  ASSUME Inv, Inv', NEW w \in Workers, Commit(w)
  PROVE  ActedFurther \/ Grown(w)
<1>. DEFINE h == job[w].head
            n == Len(h)
<1>1. At(w, "commit") /\ acted' = acted
  BY DEF Commit
<1>2. CASE ~Unmoved(w)
  <2>1. point' = point
    BY <1>2 DEF Commit
  <2>. QED BY <1>1, <2>1, TipStill
<1>3. CASE Unmoved(w)
  <2>1. point'.head = h
    BY <1>3 DEF Commit
  <2>2. /\ IsSeq(h) /\ n \in Nat \ {0} /\ Top(w) = h[n]
        /\ RowKept(h, n, pinned, withdrawn) /\ n = Len(point.head) + 1
        /\ \A i \in 1..Len(point.head) : h[i] = point.head[i]
    BY <1>1, <1>3, DraftIs DEF Unmoved
  <2>3. Len(point.head) \in Nat /\ Len(acted) \in Nat /\ IsSeq(point.head) /\ IsSeq(acted)
    BY TipIs
  <2>4. /\ Len(acted) <= n => Tip' = h
        /\ n < Len(acted) => Tip' = acted
    <3>1. TipRule'
      BY TipRuled, PTL
    <3>. QED BY <1>1, <2>1, <3>1 DEF TipRule
  <2>5. CASE Len(acted) <= Len(point.head)
    <3>1. Tip' = h /\ Tip = point.head
      BY <2>2, <2>3, <2>4, <2>5, TipIs
    <3>2. PICK p : p = point.head
      OBVIOUS
    <3>3. h = Append(p, h[n])
      <4>1. PICK g, d : g = Append(p, d) /\ d = h[n]
        OBVIOUS
      <4>2. /\ IsSeq(g) /\ Len(g) = Len(p) + 1 /\ g[Len(p) + 1] = d
            /\ \A i \in 1..Len(p) : g[i] = p[i]
        BY <2>3, <3>2, <4>1, AppendTyped
      <4>3. Len(g) = Len(h) /\ \A i \in 1..Len(g) : g[i] = h[i]
        BY <2>2, <2>3, <3>2, <4>1, <4>2
      <4>. QED BY <2>2, <4>1, <4>2, <4>3, SameSeq
    <3>. QED BY <1>1, <2>2, <3>1, <3>2, <3>3 DEF Grown, RowKept
  <2>6. CASE Len(point.head) < Len(acted)
    <3>1. Tip = acted
      BY <2>6, TipIs
    <3>2. Tip' = acted
      <4>1. CASE n < Len(acted)
        BY <2>4, <4>1
      <4>2. CASE n = Len(acted)
        <5>1. (\A i \in 1..Len(acted) : i <= Len(point.head) => acted[i] = point.head[i])'
          BY DEF Inv, ActedKept
        <5>2. \A i \in 1..Len(acted) : acted[i] = h[i]
          BY <1>1, <2>1, <4>2, <5>1
        <5>3. acted = h
          BY <2>2, <2>3, <4>2, <5>2, SameSeq
        <5>. QED BY <2>3, <2>4, <4>2, <5>3
      <4>. QED BY <2>2, <2>3, <2>6, <4>1, <4>2
    <3>. QED BY <1>1, <2>3, <3>1, <3>2 DEF ActedFurther
  <2>. QED BY <2>3, <2>5, <2>6
<1>. QED BY <1>2, <1>3

LEMMA TipStep ==
  ASSUME Inv, Inv', [Next]_vars
  PROVE  ActedFurther \/ FellBack \/ \E w \in Workers : Grown(w)
<1>1. ASSUME NEW w \in Workers, Settle(w) PROVE ActedFurther
  <2>. DEFINE e == job[w].entry
  <2>1. /\ Finished(w) /\ UNCHANGED <<identities, withdrawn, pinned, prepared, dead, guard, point>>
        /\ UNCHANGED acted \/ ActedOn(e.version)
    BY <1>1 DEF Settle, Finished, journal
  <2>2. CASE UNCHANGED acted
    BY <2>1, <2>2, TipStill
  <2>3. CASE ActedOn(e.version)
    <3>1. EntryKept(w) /\ DoneKept(w)
      BY <2>1 DEF Inv, JobsKept, JobKept, Finished, At
    <3>2. PICK n : n = e.version
      OBVIOUS
    <3>3. n \in 1..Len(point.head) /\ ActedOn(n)
      BY <2>3, <3>1, <3>2, EntryIs, TipIs DEF EntryKept, DoneKept, ActedOn
    <3>4. point.head[n].state.ready => guard' = "initialized"
      BY <2>1, <3>1, <3>2 DEF DoneKept
    <3>5. Grows
      BY <2>1, GrowsSame
    <3>. QED BY <2>1, <3>3, <3>4, <3>5, TipOfActed
  <2>. QED BY <2>1, <2>2, <2>3
<1>2. CASE Serve
  <2>1. PICK n : n = Len(point.head)
    OBVIOUS
  <2>2. n \in 1..Len(point.head) /\ ActedOn(n) /\ guard' = "initialized" /\ point' = point
    BY <1>2, <2>1, TipIs DEF Serve, Guarded, Ready, ActedOn, Inv, PointKept
  <2>3. Grows
    BY <1>2, GrowsGuarded DEF Serve, transport, journal
  <2>. QED BY <2>2, <2>3, TipOfActed
<1>3. CASE LosePoint
  <2>1. point' = NoPoint /\ acted' = acted
    BY <1>3 DEF LosePoint
  <2>. QED BY <2>1 DEF FellBack, Tip
<1>4. ASSUME NEW w \in Workers, Step(w) PROVE ActedFurther \/ Grown(w)
  <2>1. CASE Commit(w)
    BY <2>1, TipOfCommit
  <2>2. CASE Settle(w)
    BY <2>2, <1>1
  <2>3. CASE Step(w) /\ ~Commit(w) /\ ~Settle(w)
    <3>1. UNCHANGED <<point, acted>>
      BY <2>3 DEF Step, Look, Lookup, Pin, Fetch, Reserve, CopyOver, Refund, Read, Attest,
                  Prepare, Bury, Check, Confirm
    <3>. QED BY <3>1, TipStill
  <2>. QED BY <1>4, <2>1, <2>2, <2>3
<1>5. CASE (\E e \in Entries : Admit(e)) \/ (\E p \in Producers : Recover(p) \/ \E e \in Entries : Ask(p, e))
           \/ \E w \in Workers : Interrupt(w) \/ \E e \in Entries : Take(w, e)
  <2>1. UNCHANGED <<point, acted>>
    BY <1>5 DEF Admit, Recover, Ask, Interrupt, Take
  <2>. QED BY <2>1, TipStill
<1>6. CASE UNCHANGED vars
  BY <1>6, TipStill DEF vars
<1>. QED BY <1>2, <1>3, <1>4, <1>5, <1>6 DEF Next

----------------------------------------------------------------------------
(* The committed rows as the abstract log. *)
Entered(row) == [op |-> row.op.id, version |-> row.op.version, disposition |-> row.disposition]
LogOf(t) == [n \in 1..Len(t) |-> [op |-> t[n].op.id, version |-> t[n].op.version,
                                  disposition |-> t[n].disposition]]

LEMMA LogTyped ==
  ASSUME NEW t, IsSeq(t)
  PROVE  IsSeq(LogOf(t)) /\ Len(LogOf(t)) = Len(t) /\ \A i \in 1..Len(t) : LogOf(t)[i] = Entered(t[i])
<1>. DEFINE S == {Entered(t[i]) : i \in 1..Len(t)}
            g == LogOf(t)
<1>1. Len(t) \in Nat
  BY SeqTyped
<1>2. g = [i \in 1..Len(t) |-> Entered(t[i])]
  BY DEF LogOf, Entered
<1>3. \A i \in 1..Len(t) : Entered(t[i]) \in S
  OBVIOUS
<1>. HIDE DEF S, g
<1>4. g \in Seq(S) /\ Len(g) = Len(t)
  BY <1>1, <1>2, <1>3
<1>5. IsSeq(g)
  BY <1>4, AnySeq
<1>. QED BY <1>2, <1>4, <1>5 DEF g

LEMMA LogOfAppend ==
  ASSUME NEW t, IsSeq(t), NEW row
  PROVE  LogOf(Append(t, row)) = Append(LogOf(t), Entered(row))
<1>. DEFINE a == LogOf(Append(t, row))
            b == Append(LogOf(t), Entered(row))
<1>1. /\ IsSeq(Append(t, row)) /\ Len(Append(t, row)) = Len(t) + 1 /\ Len(t) \in Nat
      /\ \A i \in 1..Len(t) : Append(t, row)[i] = t[i]
      /\ Append(t, row)[Len(t) + 1] = row
  BY AppendTyped, SeqTyped
<1>2. /\ IsSeq(a) /\ Len(a) = Len(t) + 1
      /\ \A i \in 1..(Len(t) + 1) : a[i] = Entered(Append(t, row)[i])
  BY <1>1, LogTyped
<1>3. /\ IsSeq(b) /\ Len(b) = Len(t) + 1 /\ b[Len(t) + 1] = Entered(row)
      /\ \A i \in 1..Len(t) : b[i] = Entered(t[i])
  <2>1. PICK l : l = LogOf(t)
    OBVIOUS
  <2>2. IsSeq(l) /\ Len(l) = Len(t) /\ \A i \in 1..Len(t) : l[i] = Entered(t[i])
    BY <2>1, LogTyped
  <2>3. b = Append(l, Entered(row))
    BY <2>1
  <2>. HIDE DEF b
  <2>. QED BY <2>2, <2>3, AppendTyped
<1>4. \A i \in 1..(Len(t) + 1) : i \in 1..Len(t) \/ i = Len(t) + 1
  BY <1>1
<1>. HIDE DEF a, b
<1>5. \A i \in 1..Len(a) : a[i] = b[i]
  BY <1>1, <1>2, <1>3, <1>4
<1>6. a = b
  BY <1>2, <1>3, <1>5, SameSeq
<1>. QED BY <1>6 DEF a, b

LEMMA LogOfPrefix ==
  ASSUME NEW t, NEW a, IsSeq(t), IsSeq(a), Len(a) <= Len(t), \A i \in 1..Len(a) : t[i] = a[i]
  PROVE  LogOf(a) = SubSeq(LogOf(t), 1, Len(a))
<1>1. PICK l, k : l = LogOf(t) /\ k = LogOf(a)
  OBVIOUS
<1>2. Len(a) \in Nat /\ Len(t) \in Nat
  BY SeqTyped
<1>3. /\ IsSeq(l) /\ Len(l) = Len(t) /\ \A i \in 1..Len(t) : l[i] = Entered(t[i])
  BY <1>1, LogTyped
<1>4. /\ IsSeq(k) /\ Len(k) = Len(a) /\ \A i \in 1..Len(a) : k[i] = Entered(a[i])
  BY <1>1, LogTyped
<1>5. /\ IsSeq(SubSeq(l, 1, Len(a))) /\ Len(SubSeq(l, 1, Len(a))) = Len(a)
      /\ \A i \in 1..Len(a) : SubSeq(l, 1, Len(a))[i] = l[i]
  <2>1. Len(a) \in 0..Len(l)
    BY <1>2, <1>3
  <2>. QED BY <1>3, <2>1, SubSeqTyped
<1>6. \A i \in 1..Len(k) : k[i] = SubSeq(l, 1, Len(a))[i]
  BY <1>2, <1>3, <1>4, <1>5
<1>7. k = SubSeq(l, 1, Len(a))
  BY <1>4, <1>5, <1>6, SameSeq
<1>. QED BY <1>1, <1>7

LEMMA TipSeq == Inv => IsSeq(Tip)
BY TipIs

LEMMA ChainStep ==
  ASSUME Inv, Inv', [Next]_vars
  PROVE  \/ /\ LogOf(Tip)' = LogOf(Tip)
            /\ Len(acted)' \in Len(acted)..Len(LogOf(Tip))
         \/ LogOf(Tip)' = SubSeq(LogOf(Tip), 1, Len(acted)) /\ Len(acted)' = Len(acted)
         \/ /\ \E o \in Ids, d \in Kinds :
                 LogOf(Tip)' = Append(LogOf(Tip), [op |-> o, version |-> Len(LogOf(Tip)) + 1,
                                                   disposition |-> d])
            /\ Len(acted)' = Len(acted)
<1>1. /\ IsSeq(Tip) /\ Len(LogOf(Tip)) = Len(Tip) /\ Len(acted) <= Len(Tip) /\ IsSeq(acted)
      /\ \A i \in 1..Len(acted) : Tip[i] = acted[i]
  BY TipIs, TipSeq, LogTyped
<1>2. CASE ActedFurther
  BY <1>1, <1>2 DEF ActedFurther
<1>3. CASE FellBack
  <2>1. LogOf(acted) = SubSeq(LogOf(Tip), 1, Len(acted))
    BY <1>1, LogOfPrefix
  <2>2. LogOf(Tip)' = LogOf(acted) /\ Len(acted)' = Len(acted)
    BY <1>3 DEF FellBack
  <2>. QED BY <2>1, <2>2
<1>4. ASSUME NEW w \in Workers, Grown(w)
      PROVE  /\ \E o \in Ids, d \in Kinds :
                   LogOf(Tip)' = Append(LogOf(Tip), [op |-> o, version |-> Len(LogOf(Tip)) + 1,
                                                     disposition |-> d])
             /\ Len(acted)' = Len(acted)
  <2>1. PICK row : row = Top(w)
    OBVIOUS
  <2>2. LogOf(Append(Tip, row)) = Append(LogOf(Tip), Entered(row))
    BY <1>1, LogOfAppend
  <2>3. LogOf(Tip)' = LogOf(Append(Tip, row)) /\ Len(acted)' = Len(acted)
    BY <1>4, <2>1 DEF Grown
  <2>4. /\ Entered(row) = [op |-> row.op.id, version |-> Len(LogOf(Tip)) + 1,
                           disposition |-> row.disposition]
        /\ row.op.id \in Ids /\ row.disposition \in Kinds
    BY <1>1, <1>4, <2>1 DEF Grown, Entered
  <2>. QED BY <2>2, <2>3, <2>4
<1>5. ActedFurther \/ FellBack \/ \E w \in Workers : Grown(w)
  BY TipStep
<1>. QED BY <1>2, <1>3, <1>4, <1>5

(* The journal implements the abstract log: each version is committed once, *)
(* in order and under one disposition, and rows that somebody acted on are *)
(* never replaced, also after the point is lost.                           *)
THEOREM ChainTheorem == Spec => ChainSpec
<1>1. Init => Chain!CInit
  <2>. SUFFICES ASSUME Init PROVE Chain!CInit
    OBVIOUS
  <2>1. Tip = <<>> /\ acted = <<>>
    BY DEF Init, Tip
  <2>. QED BY <2>1, EmptyTyped DEF Chain!CInit
<1>2. Inv /\ Inv' /\ [Next]_vars => [Chain!CNext]_(<<LogOf(Tip), Len(acted)>>)
  <2>. SUFFICES ASSUME Inv, Inv', [Next]_vars PROVE Chain!CNext
    OBVIOUS
  <2>. QED BY ChainStep DEF Chain!CNext, Chain!Act, Chain!Lose, Chain!Commit, LogOf, Ids, Kinds
<1>. QED BY <1>1, <1>2, JournalInvariant, PTL DEF Spec, ChainSpec, Chain!CSpec, LogOf

----------------------------------------------------------------------------
(* Only the last check lets a worker write. *)
Moves(w, r) == job' = [job EXCEPT ![w] = r] /\ r.pc # "commit"
Moved(w) == \E r : Moves(w, r)

LEMMA DropMoves == ASSUME NEW w \in Workers, Drop(w) PROVE Moved(w)
<1>1. job' = [job EXCEPT ![w] = IdleJob] /\ IdleJob.pc # "commit"
  BY DEF Drop, IdleJob
<1>. QED BY <1>1 DEF Moved, Moves

LEMMA GotoMoves ==
  ASSUME Inv, NEW w \in Workers, NEW pc, pc # "commit", Goto(w, pc) PROVE Moved(w)
<1>. DEFINE r == [job[w] EXCEPT !.pc = pc]
<1>1. job' = [job EXCEPT ![w] = r]
  BY DEF Goto
<1>2. r.pc = pc
  BY JobTyped DEF Fields
<1>. HIDE DEF r
<1>. QED BY <1>1, <1>2 DEF Moved, Moves

LEMMA ForgetMoves ==
  ASSUME NEW w \in Workers, NEW pc, pc # "commit", Forget(w, pc) PROVE Moved(w)
<1>. DEFINE r == [IdleJob EXCEPT !.pc = pc, !.entry = job[w].entry]
<1>1. job' = [job EXCEPT ![w] = r]
  BY DEF Forget
<1>2. r.pc = pc
  BY DEF IdleJob
<1>. HIDE DEF r
<1>. QED BY <1>1, <1>2 DEF Moved, Moves

LEMMA PreparedMoves ==
  ASSUME Inv, NEW w \in Workers, NEW rows, NEW b, Prepared(w, rows, b) PROVE Moved(w)
<1>1. CASE Drop(w)
  BY <1>1, DropMoves
<1>2. ASSUME NEW row,
             job' = [job EXCEPT ![w].before = point, ![w].head = Append(b.head, row),
                                ![w].want = NoPin, ![w].pc = "prepare"]
      PROVE  Moved(w)
  <2>. DEFINE r == [job[w] EXCEPT !.before = point, !.head = Append(b.head, row),
                                  !.want = NoPin, !.pc = "prepare"]
  <2>1. job' = [job EXCEPT ![w] = r]
    BY <1>2
  <2>2. r.pc = "prepare"
    BY JobTyped DEF Fields
  <2>. HIDE DEF r
  <2>. QED BY <2>1, <2>2 DEF Moved, Moves
<1>. QED BY <1>1, <1>2 DEF Prepared

LEMMA StepMoves ==
  ASSUME Inv, NEW w \in Workers, Step(w) PROVE Moved(w) \/ (Check(w) /\ Goto(w, "commit"))
<1>1. CASE Look(w)
  <2>1. CASE Drop(w)
    BY <2>1, DropMoves
  <2>2. CASE Goto(w, "ack") \/ Goto(w, "pin")
    BY <2>2, GotoMoves
  <2>3. CASE job' = [job EXCEPT ![w].before = point, ![w].pc = "lookup"]
    <3>. DEFINE r == [job[w] EXCEPT !.before = point, !.pc = "lookup"]
    <3>1. job' = [job EXCEPT ![w] = r]
      BY <2>3
    <3>2. r.pc = "lookup"
      BY JobTyped DEF Fields
    <3>. HIDE DEF r
    <3>. QED BY <3>1, <3>2 DEF Moved, Moves
  <2>. QED BY <1>1, <2>1, <2>2, <2>3 DEF Look
<1>2. CASE Lookup(w)
  BY <1>2, DropMoves, ForgetMoves DEF Lookup
<1>3. CASE Pin(w)
  <2>. DEFINE r == [job[w] EXCEPT !.sample = frozen[job[w].entry.version], !.pc = "fetch"]
  <2>1. job' = [job EXCEPT ![w] = r]
    BY <1>3 DEF Pin
  <2>2. r.pc = "fetch"
    BY JobTyped DEF Fields
  <2>. HIDE DEF r
  <2>. QED BY <2>1, <2>2 DEF Moved, Moves
<1>4. CASE Fetch(w)
  <2>1. CASE Drop(w) \/ Goto(w, "copy")
    BY <2>1, DropMoves, GotoMoves
  <2>2. ASSUME NEW x, NEW pc \in {"read", "reserve"}, job' = [job EXCEPT ![w].want = x, ![w].pc = pc]
        PROVE  Moved(w)
    <3>. DEFINE r == [job[w] EXCEPT !.want = x, !.pc = pc]
    <3>1. job' = [job EXCEPT ![w] = r]
      BY <2>2
    <3>2. r.pc = pc
      BY JobTyped DEF Fields
    <3>. HIDE DEF r
    <3>. QED BY <2>2, <3>1, <3>2 DEF Moved, Moves
  <2>3. \/ Drop(w) \/ Goto(w, "copy")
        \/ \E x : \/ job' = [job EXCEPT ![w].want = x, ![w].pc = "read"]
                  \/ job' = [job EXCEPT ![w].want = x, ![w].pc = "reserve"]
    BY <1>4 DEF Fetch
  <2>. QED BY <2>1, <2>2, <2>3
<1>5. CASE Reserve(w)
  BY <1>5, ForgetMoves DEF Reserve
<1>6. CASE CopyOver(w)
  BY <1>6, DropMoves, GotoMoves DEF CopyOver
<1>7. CASE Refund(w)
  <2>. DEFINE r == [job[w] EXCEPT !.want = job[w].sample, !.sample = NoPin, !.pc = "read"]
  <2>1. job' = [job EXCEPT ![w] = r]
    BY <1>7 DEF Refund
  <2>2. r.pc = "read"
    BY JobTyped DEF Fields
  <2>. HIDE DEF r
  <2>. QED BY <2>1, <2>2 DEF Moved, Moves
<1>8. CASE Read(w)
  <2>1. \/ Drop(w) \/ Goto(w, "ack") \/ \E rows, b : Prepared(w, rows, b)
    BY <1>8 DEF Read
  <2>. QED BY <2>1, DropMoves, GotoMoves, PreparedMoves
<1>9. CASE Attest(w)
  <2>1. \/ Drop(w) \/ Goto(w, "ack") \/ \E rows, b : Prepared(w, rows, b)
    BY <1>9 DEF Attest
  <2>. QED BY <2>1, DropMoves, GotoMoves, PreparedMoves
<1>10. CASE Prepare(w)
  <2>1. Goto(w, "bury") \/ Goto(w, "check")
    BY <1>10 DEF Prepare
  <2>. QED BY <2>1, GotoMoves
<1>11. CASE Bury(w)
  BY <1>11, DropMoves, GotoMoves DEF Bury
<1>12. CASE Check(w)
  BY <1>12, DropMoves DEF Check
<1>13. CASE Commit(w)
  <2>. DEFINE r == [job[w] EXCEPT !.before = NoPoint, !.pc = "confirm"]
  <2>1. job' = [job EXCEPT ![w] = r]
    BY <1>13 DEF Commit
  <2>2. r.pc = "confirm"
    BY JobTyped DEF Fields
  <2>. HIDE DEF r
  <2>. QED BY <2>1, <2>2 DEF Moved, Moves
<1>14. CASE Confirm(w)
  BY <1>14, DropMoves, GotoMoves DEF Confirm
<1>15. CASE Settle(w)
  BY <1>15, DropMoves DEF Settle
<1>. QED BY <1>1, <1>2, <1>3, <1>4, <1>5, <1>6, <1>7, <1>8, <1>9, <1>10, <1>11, <1>12, <1>13,
            <1>14, <1>15 DEF Step

LEMMA OnlyChecked ==
  ASSUME Inv, [Next]_vars, NEW w \in Workers, job'[w].pc = "commit"
  PROVE  job'[w] = job[w] \/ (Check(w) /\ Goto(w, "commit"))
<1>1. ASSUME NEW v \in Workers, Moved(v) PROVE job'[w] = job[w]
  <2>1. PICK r : job' = [job EXCEPT ![v] = r] /\ r.pc # "commit"
    BY <1>1 DEF Moved, Moves
  <2>. QED BY <2>1, JobTyped
<1>2. ASSUME NEW v \in Workers, Step(v) PROVE job'[w] = job[w] \/ (Check(w) /\ Goto(w, "commit"))
  <2>1. CASE Moved(v)
    BY <1>1, <2>1
  <2>2. CASE Check(v) /\ Goto(v, "commit")
    <3>1. CASE v = w
      BY <2>2, <3>1
    <3>2. CASE v # w
      BY <2>2, <3>2, JobTyped DEF Goto
    <3>. QED BY <3>1, <3>2
  <2>. QED BY <1>2, <2>1, <2>2, StepMoves
<1>3. ASSUME NEW v \in Workers, Interrupt(v) PROVE job'[w] = job[w]
  BY <1>1, <1>3, DropMoves DEF Interrupt
<1>4. ASSUME NEW v \in Workers, NEW e \in Entries, Take(v, e) PROVE job'[w] = job[w]
  <2>. DEFINE pc == IF e.kind = "withdrawal" THEN "attest" ELSE "look"
              r == [job[v] EXCEPT !.entry = e, !.pc = pc]
  <2>1. job' = [job EXCEPT ![v] = r]
    BY <1>4 DEF Take
  <2>2. r.pc # "commit"
    BY JobTyped DEF Fields
  <2>. HIDE DEF r
  <2>3. Moved(v)
    BY <2>1, <2>2 DEF Moved, Moves
  <2>. QED BY <1>1, <2>3
<1>5. CASE (\E e \in Entries : Admit(e)) \/ (\E p \in Producers : Recover(p) \/ \E e \in Entries : Ask(p, e))
           \/ Serve \/ LosePoint
  BY <1>5 DEF Admit, Recover, Ask, Serve, LosePoint
<1>6. CASE UNCHANGED vars
  BY <1>6 DEF vars
<1>. QED BY <1>2, <1>3, <1>4, <1>5, <1>6 DEF Next

(* A worker that passes the last check with a profile found no withdrawal. *)
LEMMA LearningStep ==
  ASSUME Inv, [Next]_vars, NEW x \in withdrawn, NEW w \in Workers, job'[w].pc = "commit",
         Top(w)'.op.id = x.id, ~Withdraws(w)'
  PROVE  Learning(x)
<1>1. CASE job'[w] = job[w]
  BY <1>1 DEF Learning, At, Top, Withdraws
<1>2. CASE Check(w) /\ Goto(w, "commit")
  <2>1. job'[w].head = job[w].head
    BY <1>2, JobTyped DEF Goto, Fields
  <2>2. Top(w)' = Top(w) /\ ~Withdraws(w) /\ Top(w).op.id = x.id
    BY <2>1 DEF Top, Withdraws
  <2>3. EntryKept(w) /\ TopKept(w)
    BY <1>2 DEF Check, Inv, JobsKept, JobKept, Writing, Uncommitted, At
  <2>4. job[w].entry \in Ops /\ job[w].entry.id = x.id
    BY <2>2, <2>3, EntryIs DEF EntryKept, TopKept
  <2>5. PICK o \in Ops : o.id = x.id /\ o.kind = "profile"
    BY JournalAssumption DEF Inv, Typed
  <2>6. job[w].entry = o
    BY <2>4, <2>5, JournalAssumption
  <2>7. Consented(w)
    <3>1. Drop(w) => job'[w].pc = "idle"
      BY JobTyped DEF Drop, IdleJob
    <3>. QED BY <1>2, <2>2, <3>1 DEF Check
  <2>. QED BY <2>5, <2>6, <2>7 DEF Consented, Withdrawing
<1>. QED BY <1>1, <1>2, OnlyChecked

(* Rows a step adds are the draft of a worker past its last check. *)
LEMMA LearnedStep ==
  ASSUME Inv, Inv', [Next]_vars, NEW x \in withdrawn, Learned(x)'
  PROVE  Reachable(x)
<1>. DEFINE n == x.version
<1>1. n \in Nat \ {0}
  BY EntryIs DEF Inv, Typed, Entries
<1>2. IsSeq(Tip) /\ Len(Tip) \in Nat /\ Len(acted) \in Nat /\ Len(acted) <= Len(Tip)
  BY TipIs, TipSeq, SeqTyped
<1>3. n <= Len(Tip') /\ Tip'[n].op.id = x.id /\ Tip'[n].disposition = "applied"
  BY DEF Learned, Settled
<1>4. CASE ActedFurther
  BY <1>3, <1>4 DEF ActedFurther, Reachable, Learned, Settled
<1>5. CASE FellBack
  <2>1. n <= Len(acted) /\ acted[n] = Tip[n]
    BY <1>1, <1>2, <1>3, <1>5, TipIs DEF FellBack
  <2>2. acted[n].op.id = x.id /\ acted[n].disposition = "applied"
    BY <1>3, <1>5 DEF FellBack
  <2>. QED BY <1>1, <1>2, <2>1, <2>2 DEF Reachable, Learned, Settled
<1>6. ASSUME NEW w \in Workers, Grown(w) PROVE Reachable(x)
  <2>1. PICK row : row = Top(w)
    OBVIOUS
  <2>2. /\ Len(Tip') = Len(Tip) + 1 /\ Tip'[Len(Tip) + 1] = row
        /\ \A i \in 1..Len(Tip) : Tip'[i] = Tip[i]
    BY <1>2, <1>6, <2>1, AppendTyped DEF Grown
  <2>3. CASE n <= Len(Tip)
    BY <1>1, <1>3, <2>2, <2>3 DEF Reachable, Learned, Settled
  <2>4. CASE n = Len(Tip) + 1
    <3>1. row.op.id = x.id /\ row.disposition = "applied"
      BY <1>3, <2>2, <2>4
    <3>. QED BY <1>6, <2>1, <3>1 DEF Grown, Reachable, Learning, Withdraws
  <2>. QED BY <1>1, <1>2, <1>3, <2>2, <2>3, <2>4
<1>. QED BY <1>4, <1>5, <1>6, TipStep

LEMMA WithdrawalStep == Inv /\ Inv' /\ [Next]_vars =>
                          [\A x \in withdrawn : ~Reachable(x) => ~Reachable(x)']_vars
<1>. SUFFICES ASSUME Inv, Inv', [Next]_vars, NEW x \in withdrawn, Reachable(x)'
              PROVE  Reachable(x)
  OBVIOUS
<1>1. CASE Learned(x)'
  BY <1>1, LearnedStep
<1>2. ASSUME NEW w \in Workers, At(w, "commit")', Top(w)'.op.id = x.id, ~Withdraws(w)'
      PROVE  Reachable(x)
  BY <1>2, LearningStep DEF At, Reachable
<1>. QED BY <1>1, <1>2 DEF Reachable, Learning

(* Once a withdrawal is accepted, a profile that is neither applied nor     *)
(* past its last check then is never applied later: no delivery, retry or  *)
(* replay after the loss of the point brings it back.                      *)
THEOREM WithdrawalTheorem == Spec => WithdrawalHolds
BY JournalInvariant, WithdrawalStep, PTL DEF Spec, WithdrawalHolds
----------------------------------------------------------------------------
(* The reducer: what an operation makes of a sound state is sound, and no  *)
(* sealed session learns.                                                  *)

SessionFields == {"epoch", "sealed", "ended", "started", "anchor", "active", "entries", "witness"}
Clocked(ledger) == \A g \in ledger : g.at \in Nat
SessionOk(ss, t) ==
  /\ DOMAIN ss = SessionFields /\ ss.epoch \in Nat /\ ss.ended \in BOOLEAN
  /\ {ss.started, ss.anchor, ss.active} \subseteq Nat /\ Clocked(ss.entries) /\ SessionSound(ss, t)
SessionsOk(all, t) == \A s \in DOMAIN all : SessionOk(all[s], t)

StateOk(st) ==
  /\ {"op", "ready", "fb", "clock", "last"} \subseteq DOMAIN st
  /\ st.ready \in BOOLEAN /\ {st.op, st.fb, st.clock} \subseteq Nat /\ StateSound(st)
  /\ st.ready => /\ {"base", "long", "sessions"} \subseteq DOMAIN st
                 /\ Clocked(st.long) /\ SessionsOk(st.sessions, st.clock)

\* Of each session that was sealed: it is gone, anew, or sealed still.
SessionCarried(old, new) ==
  old.ended => new.epoch > old.epoch \/ (new.epoch = old.epoch /\ new.ended /\ new.entries = {})
Carried(all, next) == \A s \in DOMAIN all \cap DOMAIN next : SessionCarried(all[s], next[s])

(* A set of naturals below a bound has its largest.                        *)
LEMMA LargestIn ==
  ASSUME NEW S \in SUBSET Nat, S # {}, NEW t \in Nat, \A x \in S : x <= t
  PROVE  Max(S) \in S /\ \A x \in S : x <= Max(S)
<1> DEFINE D == {t - x : x \in S}
<1>0. \A x \in S : x \in Nat /\ t - x \in Nat OBVIOUS
<1>1. D \in SUBSET Nat /\ D # {} BY <1>0
<1>2. IsWellFoundedOn(OpToRel(<, Nat), Nat) BY NatLessThanWellFounded
<1>3. PICK d \in D : \A y \in D : ~(<<y, d>> \in OpToRel(<, Nat)) BY <1>1, <1>2, WFMin
<1>4. \A y \in D : d <= y
  <2> TAKE y \in D
  <2>1. <<y, d>> \notin OpToRel(<, Nat) BY <1>3
  <2>2. ~(y < d) BY <1>1, <2>1 DEF OpToRel
  <2> QED BY <1>1, <2>2
<1>5. PICK m \in S : d = t - m OBVIOUS
<1>6. \A x \in S : m >= x
  <2> TAKE x \in S
  <2>1. d <= t - x BY <1>4
  <2> QED BY <1>5, <2>1
<1> QED BY <1>6 DEF Max

LEMMA AnchorOf ==
  ASSUME NEW ledger, NEW start \in Nat, NEW t \in Nat, start <= t, Clocked(ledger), \A g \in ledger : g.at <= t
  PROVE  /\ ActiveAnchor(ledger, start) \in Nat /\ start <= ActiveAnchor(ledger, start) /\ ActiveAnchor(ledger, start) <= t
         /\ ledger = {} => ActiveAnchor(ledger, start) = start
<1> DEFINE S == {g.at : g \in ledger} \cup {start}
<1>1. S \in SUBSET Nat /\ S # {} /\ (\A x \in S : x <= t) /\ start \in S /\ (ledger = {} => S = {start}) BY DEF Clocked
<1>2. ActiveAnchor(ledger, start) = Max(S) BY DEF ActiveAnchor
<1> HIDE DEF S
<1> QED BY <1>1, <1>2, LargestIn

----------------------------------------------------------------------------
(* Ledgers *)
LEMMA PutSound ==
  ASSUME NEW ledger, NEW o, NEW weight, NEW t \in Nat, NEW s \in Nat, s <= t, Clocked(ledger), LedgerSound(ledger, t),
         \A g \in ledger : g.at >= s
  PROVE  LET new == Put(ledger, o, weight, t)
         IN  Clocked(new) /\ LedgerSound(new, t) /\ \A g \in new : g.at >= s
<1> DEFINE sig == Signal(o, weight, t)
<1>1. sig.at = t /\ sig.repo = o.repo /\ sig.family = FamilyOf[o.event] BY DEF Signal
<1> HIDE DEF sig
<1>2. Put(ledger, o, weight, t) = (ledger \ Held(ledger, o)) \cup {sig} BY DEF Put, sig
<1> QED BY <1>1, <1>2 DEF Held, LedgerSound, Clocked

LEMMA LessSound ==
  ASSUME NEW ledger, NEW less, less \subseteq ledger, NEW t, Clocked(ledger), LedgerSound(ledger, t)
  PROVE  Clocked(less) /\ LedgerSound(less, t)
BY DEF LedgerSound, Clocked

LEMMA LaterSound ==
  ASSUME NEW ledger, NEW t \in Nat, NEW u \in Nat, t <= u, Clocked(ledger), LedgerSound(ledger, t)
  PROVE  LedgerSound(ledger, u)
BY DEF LedgerSound, Clocked

LEMMA LongSound ==
  ASSUME NEW ledger, NEW o, NEW t \in Nat, Clocked(ledger), LedgerSound(ledger, t)
  PROVE  Clocked(LongLearned(ledger, o, t)) /\ LedgerSound(LongLearned(ledger, o, t), t)
<1>1. CASE o.event \in DOMAIN Undone
  BY <1>1, LessSound DEF LongLearned
<1>2. CASE o.event \notin DOMAIN Undone /\ o.event \in Durable /\ Anew(ledger, o)
  <2>1. \A g \in ledger : g.at >= 0 BY DEF Clocked
  <2> QED BY <1>2, <2>1, PutSound DEF LongLearned
<1>3. CASE o.event \notin DOMAIN Undone /\ ~(o.event \in Durable /\ Anew(ledger, o))
  BY <1>3 DEF LongLearned
<1> QED BY <1>1, <1>2, <1>3

----------------------------------------------------------------------------
(* Sessions *)
LEMMA SessionLater ==
  ASSUME NEW ss, NEW t \in Nat, NEW u \in Nat, t <= u, SessionOk(ss, t)
  PROVE  SessionOk(ss, u)
<1>1. LedgerSound(ss.entries, u) BY LaterSound DEF SessionOk, SessionSound
<1> QED BY <1>1 DEF SessionOk, SessionSound

LEMMA SealSound ==
  ASSUME NEW ss, NEW t \in Nat, SessionOk(ss, t)
  PROVE  LET new == Seal(ss)
         IN  SessionOk(new, t) /\ new.ended /\ new.epoch = ss.epoch /\ new.entries = {}
<1> DEFINE new == Seal(ss)
<1>1. /\ DOMAIN new = SessionFields /\ new.epoch = ss.epoch /\ new.sealed = ss.epoch /\ new.ended = TRUE
      /\ new.started = ss.started /\ new.anchor = ss.started /\ new.active = ss.active /\ new.entries = {}
  BY DEF Seal, SessionOk, SessionFields
<1> HIDE DEF new
<1>2. ss.started \in Nat /\ ss.started <= t /\ ss.epoch \in Nat BY DEF SessionOk, SessionSound
<1>3. Clocked({}) /\ LedgerSound({}, t) BY DEF Clocked, LedgerSound
<1>4. ActiveAnchor({}, ss.started) = ss.started BY <1>2, <1>3, AnchorOf
<1>5. /\ ss.started <= ss.active /\ ss.active <= t /\ {ss.started, ss.active} \subseteq Nat
  BY DEF SessionOk, SessionSound
<1>6. SessionSound(new, t) BY <1>1, <1>2, <1>3, <1>4, <1>5 DEF SessionSound
<1>7. {new.started, new.anchor, new.active} \subseteq Nat /\ Clocked(new.entries) BY <1>1, <1>2, <1>3, <1>5
<1>8. SessionOk(new, t) BY <1>1, <1>2, <1>6, <1>7 DEF SessionOk
<1> QED BY <1>1, <1>8 DEF new

LEMMA FeltSound ==
  ASSUME NEW ss, NEW o, NEW t \in Nat, SessionOk(ss, t)
  PROVE  SessionOk(Felt(ss, o, t), t) /\ Felt(ss, o, t).epoch = ss.epoch /\ (ss.ended => Felt(ss, o, t) = ss)
<1>1. CASE ss.ended BY <1>1 DEF Felt
<1>2. CASE ~ss.ended /\ ~Meaningful(ss.entries, o)
  <2> DEFINE a == IF RefreshOnNoop THEN t ELSE ss.active
             new == [ss EXCEPT !.active = a]
  <2>1. Felt(ss, o, t) = new BY <1>2 DEF Felt
  <2>2. a \in Nat /\ ss.started <= a /\ a <= t BY DEF SessionOk, SessionSound
  <2> HIDE DEF a
  <2>3. /\ DOMAIN new = SessionFields /\ new.epoch = ss.epoch /\ new.sealed = ss.sealed /\ new.ended = ss.ended
        /\ new.started = ss.started /\ new.anchor = ss.anchor /\ new.active = a /\ new.entries = ss.entries
    BY DEF SessionOk, SessionFields
  <2> HIDE DEF new
  <2> QED BY <1>2, <2>1, <2>2, <2>3 DEF SessionOk, SessionSound
<1>3. CASE ~ss.ended /\ Meaningful(ss.entries, o)
  <2> DEFINE ledger == SessionLedger(ss.entries, o, t)
             anchor == ActiveAnchor(ledger, ss.started)
             new == [ss EXCEPT !.entries = ledger, !.active = t, !.anchor = anchor]
  <2>1. Felt(ss, o, t) = new BY <1>3 DEF Felt
  <2>2. ss.started \in Nat /\ ss.started <= t /\ Clocked(ss.entries) /\ LedgerSound(ss.entries, t)
        /\ \A g \in ss.entries : g.at >= ss.started
    BY DEF SessionOk, SessionSound
  <2>3. Clocked(ledger) /\ LedgerSound(ledger, t) /\ \A g \in ledger : g.at >= ss.started
    <3>1. CASE o.event \in DOMAIN Undone BY <2>2, <3>1, LessSound DEF SessionLedger
    <3>2. CASE o.event \notin DOMAIN Undone BY <2>2, <3>2, PutSound DEF SessionLedger
    <3> QED BY <3>1, <3>2
  <2> HIDE DEF ledger
  <2>4. anchor \in Nat /\ ss.started <= anchor /\ anchor <= t BY <2>2, <2>3, AnchorOf DEF LedgerSound
  <2>5. anchor = ActiveAnchor(ledger, ss.started) OBVIOUS
  <2> HIDE DEF anchor
  <2>6. /\ DOMAIN new = SessionFields /\ new.epoch = ss.epoch /\ new.sealed = ss.sealed /\ new.ended = ss.ended
        /\ new.started = ss.started /\ new.anchor = anchor /\ new.active = t /\ new.entries = ledger
    BY DEF SessionOk, SessionFields
  <2> HIDE DEF new
  <2> QED BY <1>3, <2>1, <2>2, <2>3, <2>4, <2>5, <2>6 DEF SessionOk, SessionSound
<1>4. ss.ended \in BOOLEAN BY DEF SessionOk
<1> QED BY <1>1, <1>2, <1>3, <1>4

LEMMA BoundSound ==
  ASSUME NEW ss, NEW o, NEW t \in Nat, SessionOk(ss, t)
  PROVE  SessionOk(Bound(ss, o, t), t) /\ SessionCarried(ss, Bound(ss, o, t))
<1>0. ss.epoch \in Nat /\ (ss.ended => ss.entries = {}) BY DEF SessionOk, SessionSound
<1>1. CASE o.epoch < ss.epoch BY <1>0, <1>1 DEF Bound, SessionCarried
<1>2. CASE ~(o.epoch < ss.epoch)
  <2> DEFINE mid == IF ~o.live \/ Idle(ss, t) THEN Seal(ss) ELSE ss
  <2>1. SessionOk(mid, t) /\ mid.epoch = ss.epoch /\ (ss.ended => mid.ended /\ mid.entries = {})
    BY <1>0, SealSound
  <2>2. Bound(ss, o, t) = Felt(mid, o, t) BY <1>2 DEF Bound
  <2> HIDE DEF mid
  <2> QED BY <2>1, <2>2, FeltSound DEF SessionCarried
<1> QED BY <1>1, <1>2

LEMMA IdleSound ==
  ASSUME NEW st, NEW t \in Nat, SessionsOk(st.sessions, t)
  PROVE  LET all == SealedIdle(st, t)
         IN  DOMAIN all = DOMAIN st.sessions /\ SessionsOk(all, t) /\ Carried(st.sessions, all)
             /\ \A s \in DOMAIN all : all[s].epoch = st.sessions[s].epoch
<1> DEFINE all == SealedIdle(st, t)
<1>1. DOMAIN all = DOMAIN st.sessions BY DEF SealedIdle
<1>2. ASSUME NEW s \in DOMAIN st.sessions
      PROVE  SessionOk(all[s], t) /\ SessionCarried(st.sessions[s], all[s]) /\ all[s].epoch = st.sessions[s].epoch
  <2>1. SessionOk(st.sessions[s], t) BY DEF SessionsOk
  <2>2. all[s] = Seal(st.sessions[s]) \/ all[s] = st.sessions[s] BY DEF SealedIdle
  <2>3. (st.sessions[s].ended => st.sessions[s].entries = {}) BY <2>1 DEF SessionOk, SessionSound
  <2>4. CASE all[s] = Seal(st.sessions[s]) BY <2>1, <2>4, SealSound DEF SessionCarried
  <2>5. CASE all[s] = st.sessions[s] BY <2>1, <2>3, <2>5 DEF SessionCarried
  <2> QED BY <2>2, <2>4, <2>5
<1> QED BY <1>1, <1>2 DEF SessionsOk, Carried
----------------------------------------------------------------------------
(* The reducer *)
LEMMA SessionsSound ==
  ASSUME NEW st, NEW o, StateOk(st), st.ready, Verdict(st, o) = "ok", o.at \in Nat
  PROVE  SessionsOk(Sessions(st, o), Now(st, o)) /\ Carried(st.sessions, Sessions(st, o))
<1> DEFINE t == Now(st, o)
           all == SealedIdle(st, t)
           kept == DOMAIN all \ {o.session}
           set(s) == [x \in kept \cup {o.session} |-> IF x = o.session THEN s ELSE all[x]]
<1>1. t \in Nat /\ st.clock \in Nat /\ st.clock <= t /\ o.at <= t BY DEF StateOk, Now, Later
<1>2. SessionsOk(st.sessions, t)
  <2>1. SessionsOk(st.sessions, st.clock) BY DEF StateOk
  <2> HIDE DEF t
  <2> QED BY <1>1, <2>1, SessionLater DEF SessionsOk
<1>3. /\ DOMAIN all = DOMAIN st.sessions /\ SessionsOk(all, t) /\ Carried(st.sessions, all)
      /\ \A s \in DOMAIN all : all[s].epoch = st.sessions[s].epoch
  BY <1>1, <1>2, IdleSound
<1>4. KindVerdict(st, o) = "ok" BY DEF Verdict
<1>5. Sessions(st, o) =
        CASE o.kind = "begin" -> set(NewSession(1, o.at, o.at, o.witness))
          [] o.kind = "reset" -> set(NewSession(o.epoch + 1, o.at, t, o.witness))
          [] o.kind = "end" -> [x \in kept |-> all[x]]
          [] o.kind = "feedback" /\ Known(st, o) -> set(Bound(all[o.session], o, t))
          [] OTHER -> all
  BY DEF Sessions
<1> SUFFICES SessionsOk(Sessions(st, o), t) /\ Carried(st.sessions, Sessions(st, o)) OBVIOUS
<1> HIDE DEF t, all
<1>6. ASSUME NEW s, SessionOk(s, t), o.session \in DOMAIN st.sessions => SessionCarried(st.sessions[o.session], s)
      PROVE  SessionsOk(set(s), t) /\ Carried(st.sessions, set(s))
  BY <1>3, <1>6 DEF SessionsOk, Carried
<1>7. ASSUME NEW e \in Nat \ {0}, NEW a \in Nat, NEW w, o.at <= a, a <= t
      PROVE  SessionOk(NewSession(e, o.at, a, w), t) /\ NewSession(e, o.at, a, w).epoch = e
  <2> DEFINE new == NewSession(e, o.at, a, w)
  <2>1. /\ DOMAIN new = SessionFields /\ new.epoch = e /\ new.sealed = e - 1 /\ new.ended = FALSE
        /\ new.started = o.at /\ new.anchor = o.at /\ new.active = a /\ new.entries = {}
    BY DEF NewSession, SessionFields
  <2> HIDE DEF new
  <2>2. Clocked({}) /\ LedgerSound({}, t) BY DEF Clocked, LedgerSound
  <2>3. ActiveAnchor({}, o.at) = o.at BY <1>1, <2>2, AnchorOf
  <2>4. e - 1 \in 0..e /\ e - 1 # e OBVIOUS
  <2>5. SessionSound(new, t) BY <1>1, <1>7, <2>1, <2>2, <2>3, <2>4 DEF SessionSound
  <2>6. SessionOk(new, t) BY <1>1, <2>1, <2>2, <2>5 DEF SessionOk
  <2> QED BY <2>1, <2>6 DEF new
<1> HIDE DEF set
<1>8. CASE o.kind = "begin"
  <2>1. Sessions(st, o) = set(NewSession(1, o.at, o.at, o.witness)) BY <1>5, <1>8
  <2>2. ~Known(st, o) BY <1>4, <1>8 DEF KindVerdict
  <2> QED BY <1>1, <1>6, <1>7, <2>1, <2>2 DEF Known
<1>9. CASE o.kind = "reset"
  <2>1. Sessions(st, o) = set(NewSession(o.epoch + 1, o.at, t, o.witness)) BY <1>5, <1>9
  <2>2. Known(st, o) /\ st.sessions[o.session].epoch = o.epoch BY <1>4, <1>9 DEF KindVerdict
  <2>3. o.epoch \in Nat BY <1>2, <2>2 DEF Known, SessionsOk, SessionOk
  <2>4. o.epoch + 1 \in Nat \ {0} /\ o.epoch + 1 > o.epoch BY <2>3
  <2> DEFINE new == NewSession(o.epoch + 1, o.at, t, o.witness)
  <2>5. SessionOk(new, t) /\ new.epoch = o.epoch + 1 BY <1>1, <1>7, <2>4
  <2> HIDE DEF new
  <2>6. SessionCarried(st.sessions[o.session], new) BY <2>2, <2>4, <2>5 DEF SessionCarried
  <2>7. Sessions(st, o) = set(new) BY <2>1 DEF new
  <2> QED BY <1>6, <2>5, <2>6, <2>7
<1>10. CASE o.kind = "end"
  <2>1. Sessions(st, o) = [x \in kept |-> all[x]] BY <1>5, <1>10
  <2> QED BY <1>3, <2>1 DEF SessionsOk, Carried
<1>11. CASE o.kind = "feedback" /\ Known(st, o)
  <2>1. Sessions(st, o) = set(Bound(all[o.session], o, t)) BY <1>5, <1>11
  <2>2. o.session \in DOMAIN all /\ SessionOk(all[o.session], t) BY <1>3, <1>11 DEF Known, SessionsOk
  <2> DEFINE new == Bound(all[o.session], o, t)
  <2>3. SessionOk(new, t) /\ SessionCarried(all[o.session], new) BY <1>1, <2>2, BoundSound
  <2> HIDE DEF new
  <2>4. SessionCarried(st.sessions[o.session], all[o.session]) /\ all[o.session].epoch = st.sessions[o.session].epoch
        /\ st.sessions[o.session].epoch \in Nat /\ new.epoch \in Nat
    BY <1>2, <1>3, <2>2, <2>3 DEF Carried, SessionsOk, SessionOk
  <2>5. SessionCarried(st.sessions[o.session], new) BY <2>3, <2>4 DEF SessionCarried
  <2>6. Sessions(st, o) = set(new) BY <2>1 DEF new
  <2> QED BY <1>6, <2>3, <2>5, <2>6
<1>12. CASE o.kind \notin {"begin", "reset", "end"} /\ ~(o.kind = "feedback" /\ Known(st, o))
  <2>1. Sessions(st, o) = all BY <1>5, <1>12
  <2> QED BY <1>3, <2>1
<1> QED BY <1>8, <1>9, <1>10, <1>11, <1>12

LEMMA ReducedSound ==
  ASSUME NEW st, NEW o, StateOk(st), Verdict(st, o) = "ok", o.at \in Nat,
         o.kind = "withdrawal" => o.revoked \in Nat
  PROVE  /\ StateOk(Reduced(st, o))
         /\ st.ready /\ Reduced(st, o).ready => Carried(st.sessions, Reduced(st, o).sessions)
<1>0. {"op", "ready", "fb", "clock", "last"} \subseteq DOMAIN st BY DEF StateOk
<1> DEFINE r == Reduced(st, o)
           t == Now(st, o)
           s == Stepped(st, o)
<1>1. t \in Nat /\ st.clock \in Nat /\ st.clock <= t /\ o.at <= t BY DEF StateOk, Now, Later
<1>2. o.version = st.op + 1 /\ st.op \in Nat /\ st.fb \in Nat /\ st.fb <= st.op
  BY DEF Verdict, StateOk, StateSound
<1>3. /\ DOMAIN s = DOMAIN st /\ s.op = o.version /\ s.last = o.id /\ s.clock = t
      /\ s.fb = st.fb /\ s.ready = st.ready
      /\ "long" \in DOMAIN st => s.long = st.long
  BY DEF Stepped, StateOk
<1>4. r = (CASE ~st.ready /\ o.kind = "profile" ->
            [ready |-> TRUE, op |-> o.version, fb |-> 0, clock |-> s.clock, last |-> o.id,
             base |-> [content |-> o.content, source |-> o.source], long |-> {},
             sessions |-> [x \in {} |-> NewSession(1, 0, 0, "none")]]
       [] ~st.ready /\ o.kind # "profile" -> [s EXCEPT !.clock = Later(s.clock, o.revoked)]
       [] st.ready /\ o.kind = "withdrawal" ->
            [s EXCEPT !.clock = Later(s.clock, o.revoked), !.sessions = Sessions(st, o)]
       [] st.ready /\ o.kind = "profile" ->
            [s EXCEPT !.base = [content |-> o.content, source |-> o.source],
                      !.sessions = Sessions(st, o)]
       [] st.ready /\ o.kind = "feedback" ->
            [s EXCEPT !.fb = o.fb, !.long = LongLearned(st.long, o, Now(st, o)),
                      !.sessions = Sessions(st, o)]
       [] OTHER -> [s EXCEPT !.sessions = Sessions(st, o)])
  BY DEF Reduced
<1> HIDE DEF r, t, s
<1>5. CASE ~st.ready /\ o.kind = "profile"
  <2> DEFINE none == [x \in {} |-> NewSession(1, 0, 0, "none")]
  <2>1. r = [ready |-> TRUE, op |-> o.version, fb |-> 0, clock |-> s.clock, last |-> o.id,
             base |-> [content |-> o.content, source |-> o.source], long |-> {}, sessions |-> none]
    BY <1>4, <1>5
  <2>2. DOMAIN none = {} OBVIOUS
  <2> HIDE DEF none
  <2>3. /\ DOMAIN r = {"ready", "op", "fb", "clock", "last", "base", "long", "sessions"}
        /\ r.ready = TRUE /\ r.op = o.version /\ r.fb = 0 /\ r.clock = t /\ r.long = {} /\ r.sessions = none
    BY <1>3, <2>1
  <2>4. Repositories(r) = {} BY <2>2, <2>3 DEF Repositories
  <2>5. ~Overflows(r)
    <3>1. Cardinality({}) = 0 BY FS_EmptySet
    <3> QED BY <2>2, <2>3, <2>4, <3>1, PolicyAssumption DEF Overflows
  <2>6. Clocked({}) /\ LedgerSound({}, t) BY DEF Clocked, LedgerSound
  <2>7. StateSound(r) BY <1>2, <2>2, <2>3, <2>5, <2>6 DEF StateSound
  <2>8. StateOk(r)
    <3>1. SessionsOk(r.sessions, r.clock) BY <2>2, <2>3 DEF SessionsOk
    <3>2. {"op", "ready", "fb", "clock", "last"} \subseteq DOMAIN r /\ {"base", "long", "sessions"} \subseteq DOMAIN r
      BY <2>3
    <3>3. {r.op, r.fb, r.clock} \subseteq Nat BY <1>1, <1>2, <2>3
    <3> QED BY <2>3, <2>6, <2>7, <3>1, <3>2, <3>3 DEF StateOk
  <2> QED BY <1>5, <2>8 DEF r
<1>6. CASE ~st.ready /\ o.kind # "profile"
  <2>1. r = [s EXCEPT !.clock = Later(s.clock, o.revoked)] BY <1>4, <1>6
  <2>2. o.kind = "withdrawal" BY <1>6 DEF Verdict
  <2>3. Later(s.clock, o.revoked) \in Nat BY <1>1, <1>3, <2>2 DEF Later
  <2>4. DOMAIN r = DOMAIN st /\ r.op = o.version /\ r.fb = st.fb /\ r.ready = FALSE /\ r.clock \in Nat
    BY <1>3, <1>6, <2>1, <2>3 DEF StateOk
  <2>5. StateSound(r) BY <1>2, <2>4 DEF StateSound
  <2>6. {r.op, r.fb, r.clock} \subseteq Nat BY <1>2, <2>4
  <2>7. {"op", "ready", "fb", "clock", "last"} \subseteq DOMAIN r BY <1>0, <2>4
  <2>8. StateOk(r) BY <2>4, <2>5, <2>6, <2>7 DEF StateOk
  <2> QED BY <1>6, <2>8 DEF r
<1>7. CASE st.ready
  <2>1. SessionsOk(Sessions(st, o), t) /\ Carried(st.sessions, Sessions(st, o))
    BY <1>7, SessionsSound DEF t
  <2>2. Clocked(st.long) /\ LedgerSound(st.long, t) /\ {"base", "long", "sessions"} \subseteq DOMAIN st
    BY <1>1, <1>7, LaterSound DEF StateOk, StateSound
  <2>3. ~Overflows(r) BY <1>7 DEF Verdict, r
  <2>4. SUFFICES /\ DOMAIN r = DOMAIN st /\ r.op = o.version /\ r.ready = TRUE /\ r.fb \in Nat /\ r.fb <= r.op
                 /\ r.clock \in Nat /\ t <= r.clock /\ Clocked(r.long) /\ LedgerSound(r.long, t)
                 /\ r.sessions = Sessions(st, o)
    <3>1. LedgerSound(r.long, r.clock) BY <1>1, <2>4, LaterSound
    <3>2. SessionsOk(r.sessions, r.clock) BY <1>1, <2>1, <2>4, SessionLater DEF SessionsOk
    <3>3. \A x \in DOMAIN r.sessions : SessionSound(r.sessions[x], r.clock)
      BY <3>2 DEF SessionsOk, SessionOk
    <3>4. StateSound(r) BY <2>3, <2>4, <3>1, <3>3 DEF StateSound
    <3>5. {r.op, r.fb, r.clock} \subseteq Nat BY <1>2, <2>4
    <3>6. /\ {"op", "ready", "fb", "clock", "last"} \subseteq DOMAIN r
          /\ {"base", "long", "sessions"} \subseteq DOMAIN r
      BY <1>0, <2>2, <2>4
    <3>7. StateOk(r) BY <2>4, <3>2, <3>4, <3>5, <3>6 DEF StateOk
    <3> QED BY <2>1, <2>4, <3>7 DEF r
  <2>5. CASE o.kind = "withdrawal"
    <3> DEFINE c == Later(s.clock, o.revoked)
    <3>1. r = [s EXCEPT !.clock = c, !.sessions = Sessions(st, o)] BY <1>4, <1>7, <2>5
    <3>2. c \in Nat /\ t <= c BY <1>1, <1>3, <2>5 DEF Later
    <3> HIDE DEF c
    <3>3. /\ DOMAIN r = DOMAIN st /\ r.op = o.version /\ r.ready = st.ready /\ r.fb = st.fb
          /\ r.clock = c /\ r.long = st.long /\ r.sessions = Sessions(st, o)
      BY <1>3, <2>2, <3>1 DEF StateOk
    <3> QED BY <1>2, <1>7, <2>2, <3>2, <3>3
  <2>6. CASE o.kind = "profile"
    <3>1. r = [s EXCEPT !.base = [content |-> o.content, source |-> o.source], !.sessions = Sessions(st, o)]
      BY <1>4, <1>7, <2>6
    <3>2. /\ DOMAIN r = DOMAIN st /\ r.op = o.version /\ r.ready = st.ready /\ r.fb = st.fb
          /\ r.clock = t /\ r.long = st.long /\ r.sessions = Sessions(st, o)
      BY <1>3, <2>2, <3>1 DEF StateOk
    <3> QED BY <1>1, <1>2, <1>7, <2>2, <3>2
  <2>7. CASE o.kind = "feedback"
    <3> DEFINE l == LongLearned(st.long, o, t)
    <3>1. r = [s EXCEPT !.fb = o.fb, !.long = l, !.sessions = Sessions(st, o)]
      BY <1>4, <1>7, <2>7 DEF t
    <3>2. Clocked(l) /\ LedgerSound(l, t) BY <1>1, <2>2, LongSound
    <3>3. o.fb = st.fb + 1
      <4>1. KindVerdict(st, o) = "ok" BY <1>7 DEF Verdict
      <4> QED BY <2>7, <4>1 DEF KindVerdict
    <3> HIDE DEF l
    <3>4. /\ DOMAIN r = DOMAIN st /\ r.op = o.version /\ r.ready = st.ready /\ r.fb = o.fb
          /\ r.clock = t /\ r.long = l /\ r.sessions = Sessions(st, o)
      BY <1>3, <2>2, <3>1 DEF StateOk
    <3> QED BY <1>1, <1>2, <1>7, <3>2, <3>3, <3>4
  <2>8. CASE o.kind \notin {"withdrawal", "profile", "feedback"}
    <3>1. r = [s EXCEPT !.sessions = Sessions(st, o)] BY <1>4, <1>7, <2>8
    <3>2. /\ DOMAIN r = DOMAIN st /\ r.op = o.version /\ r.ready = st.ready /\ r.fb = st.fb
          /\ r.clock = t /\ r.long = st.long /\ r.sessions = Sessions(st, o)
      BY <1>3, <2>2, <3>1 DEF StateOk
    <3> QED BY <1>1, <1>2, <1>7, <2>2, <3>2
  <2> QED BY <2>5, <2>6, <2>7, <2>8
<1>8. st.ready \in BOOLEAN BY DEF StateOk
<1> QED BY <1>5, <1>6, <1>7, <1>8

LEMMA PassedSound ==
  ASSUME NEW st, NEW o, StateOk(st), Rejectable(st, o), o.at \in Nat
  PROVE  /\ StateOk(Passed(st, o))
         /\ st.ready => Carried(st.sessions, Passed(st, o).sessions)
<1> DEFINE r == Passed(st, o)
           t == Now(st, o)
           f == IF o.kind = "feedback" THEN o.fb ELSE st.fb
           s == Stepped(st, o)
<1>1. t \in Nat /\ st.clock \in Nat /\ st.clock <= t BY DEF StateOk, Now, Later
<1>2. o.version = st.op + 1 /\ f \in Nat /\ f <= st.op + 1 /\ st.op \in Nat
  BY DEF Rejectable, StateOk, StateSound
<1>3. /\ DOMAIN s = DOMAIN st /\ s.op = o.version /\ s.clock = t /\ s.ready = st.ready
      /\ st.ready => s.long = st.long /\ s.sessions = st.sessions
  BY DEF Stepped, StateOk
<1>4. r = [s EXCEPT !.fb = f] BY DEF Passed
<1> HIDE DEF r, t, s, f
<1>5. /\ DOMAIN r = DOMAIN st /\ r.op = o.version /\ r.clock = t /\ r.ready = st.ready /\ r.fb = f
      /\ st.ready => r.long = st.long /\ r.sessions = st.sessions
  BY <1>3, <1>4 DEF StateOk
<1>6. CASE ~st.ready
  <2>1. StateOk(r) BY <1>1, <1>2, <1>5, <1>6 DEF StateOk, StateSound
  <2> QED BY <1>6, <2>1 DEF r
<1>7. CASE st.ready
  <2>1. ~Overflows(r)
    <3>1. ~Overflows(st) BY <1>7 DEF StateOk, StateSound
    <3> QED BY <1>5, <1>7, <3>1 DEF Overflows, Repositories
  <2>2. LedgerSound(r.long, r.clock) /\ Clocked(r.long)
    BY <1>1, <1>5, <1>7, LaterSound DEF StateOk, StateSound
  <2>3. SessionsOk(r.sessions, r.clock) BY <1>1, <1>5, <1>7, SessionLater DEF StateOk, SessionsOk
  <2>4. \A x \in DOMAIN r.sessions : SessionSound(r.sessions[x], r.clock)
    BY <2>3 DEF SessionsOk, SessionOk
  <2>5. StateSound(r) BY <1>2, <1>5, <2>1, <2>2, <2>4 DEF StateSound
  <2>6. StateOk(r) BY <1>1, <1>2, <1>5, <2>2, <2>3, <2>5 DEF StateOk
  <2>7. \A x \in DOMAIN st.sessions : SessionCarried(st.sessions[x], st.sessions[x])
    BY <1>7 DEF StateOk, SessionsOk, SessionOk, SessionSound, SessionCarried
  <2>8. Carried(st.sessions, r.sessions) BY <1>5, <1>7, <2>7 DEF Carried
  <2> QED BY <2>6, <2>8 DEF r
<1>8. st.ready \in BOOLEAN BY DEF StateOk
<1> QED BY <1>6, <1>7, <1>8

----------------------------------------------------------------------------
(* The committed states *)
StateKept == StateOk(point.state)

LEMMA PrefixSound == ASSUME NEW at \in Nat PROVE StateOk(Prefix(at))
<1>1. /\ DOMAIN Prefix(at) = {"ready", "op", "fb", "clock", "last"} /\ Prefix(at).ready = FALSE
      /\ Prefix(at).op = 0 /\ Prefix(at).fb = 0 /\ Prefix(at).clock = at
  BY DEF Prefix
<1>2. {"op", "ready", "fb", "clock", "last"} \subseteq DOMAIN Prefix(at) BY <1>1
<1>3. {Prefix(at).op, Prefix(at).fb, Prefix(at).clock} \subseteq Nat BY <1>1
<1>4. StateSound(Prefix(at)) BY <1>1 DEF StateSound
<1> QED BY <1>1, <1>2, <1>3, <1>4 DEF StateOk

\* What an operation leads to, learned, rejected or withdrawn.
LEMMA RowSound ==
  ASSUME NEW h, NEW n, NEW pins, NEW wds, wds \subseteq Withdrawals, RowKept(h, n, pins, wds),
         StateOk(Below(h, n).state)
  PROVE  /\ StateOk(h[n].state)
         /\ Below(h, n).state.ready /\ h[n].state.ready => Carried(Below(h, n).state.sessions, h[n].state.sessions)
<1> DEFINE o == h[n].op
           st == Below(h, n).state
<1>1. CASE o.kind = "withdrawal"
  <2>1. /\ o \in Withdrawals /\ Verdict(st, o) = "ok"
        /\ h[n] = Outcome(o, "withdrawn", "withdrawn", 0, Reduced(st, o))
    BY <1>1 DEF RowKept, WithdrawnRow
  <2>2. o.at \in Nat /\ o.revoked \in Nat BY <1>1, <2>1, JournalAssumption DEF Entries
  <2>3. h[n].state = Reduced(st, o) BY <2>1 DEF Outcome
  <2> QED BY <2>1, <2>2, <2>3, ReducedSound
<1>2. CASE o.kind # "withdrawal"
  <2>1. LearnedRow(h, n, pins) BY <1>2 DEF RowKept
  <2>2. PICK e \in Ops : o = Resolved(e, pins[e.version]) BY <2>1 DEF LearnedRow
  <2>3. o.at \in Nat BY <2>2, ResolvedOp, JournalAssumption DEF Entries
  <2>4. h[n] \in Transitions(Below(h, n), o) BY <2>1 DEF LearnedRow
  <2>5. \/ Verdict(st, o) = "ok" /\ h[n].state = Reduced(st, o)
        \/ Rejectable(st, o) /\ h[n].state = Passed(st, o)
    BY <2>4 DEF Transitions, Outcome
  <2> QED BY <1>2, <2>3, <2>5, ReducedSound, PassedSound
<1> QED BY <1>1, <1>2

LEMMA PointStill ==
  ASSUME StateKept, point' = point
  PROVE  StateKept' /\ SealedStays
<1>1. StateKept' BY DEF StateKept
<1>2. point.state.ready => \A s \in DOMAIN point.state.sessions :
        LET ss == point.state.sessions[s] IN ss.ended => ss.entries = {}
  BY DEF StateKept, StateOk, SessionsOk, SessionOk, SessionSound
<1> QED BY <1>1, <1>2 DEF SealedStays

LEMMA CommitSound ==
  ASSUME Inv, StateKept, NEW w \in Workers, Commit(w)
  PROVE  StateKept' /\ SealedStays
<1> DEFINE h == job[w].head
           n == Len(h)
<1>1. CASE Unmoved(w)
  <2>1. point' = [head |-> h, state |-> h[n].state] BY <1>1 DEF Commit, Top
  <2>2. /\ RowKept(h, n, pinned, withdrawn) /\ n \in Nat \ {0} /\ n = Len(point.head) + 1
        /\ Len(point.head) \in Nat /\ \A i \in 1..Len(point.head) : h[i] = point.head[i]
    BY <1>1, DraftIs DEF Commit, Unmoved
  <2>3. withdrawn \subseteq Withdrawals BY DEF Inv, Typed
  <2>4. point # NoPoint => Len(point.head) > 0 /\ point.state = point.head[Len(point.head)].state
    BY DEF Inv, PointKept
  <2>5. /\ StateOk(Below(h, n).state)
        /\ point # NoPoint => Below(h, n).state = point.state
    <3>1. CASE n = 1
      <4>1. h[1].op.at \in Nat
        <5>1. CASE h[1].op.kind = "withdrawal"
          <6>1. h[1].op \in Withdrawals BY <2>2, <2>3, <3>1, <5>1 DEF RowKept, WithdrawnRow
          <6> QED BY <6>1, JournalAssumption DEF Entries
        <5>2. CASE h[1].op.kind # "withdrawal"
          <6>1. PICK e \in Ops : h[1].op = Resolved(e, pinned[e.version])
            BY <2>2, <3>1, <5>2 DEF RowKept, LearnedRow
          <6> QED BY <6>1, ResolvedOp, JournalAssumption DEF Entries
        <5> QED BY <5>1, <5>2
      <4>2. Below(h, n).state = Prefix(h[1].op.at) BY <3>1 DEF Below
      <4>3. point = NoPoint
        <5>1. PICK k : k = Len(point.head) OBVIOUS
        <5>2. k \in Nat /\ 1 = k + 1 BY <2>2, <3>1, <5>1
        <5>3. ~(k > 0) BY <5>2
        <5> QED BY <2>4, <5>1, <5>3
      <4> QED BY <4>1, <4>2, <4>3, PrefixSound
    <3>2. CASE n # 1
      <4>1. Below(h, n).state = h[n - 1].state BY <3>2 DEF Below
      <4>2. n - 1 = Len(point.head) /\ n - 1 \in 1..Len(point.head) BY <2>2, <3>2
      <4>3. point # NoPoint
        <5>1. Len(<<>>) = 0 BY EmptyTyped
        <5> QED BY <4>2, <5>1 DEF NoPoint
      <4>4. Below(h, n).state = point.state BY <2>2, <2>4, <4>1, <4>2, <4>3
      <4> QED BY <4>4 DEF StateKept
    <3> QED BY <3>1, <3>2
  <2>6. /\ StateOk(h[n].state)
        /\ Below(h, n).state.ready /\ h[n].state.ready => Carried(Below(h, n).state.sessions, h[n].state.sessions)
    BY <2>2, <2>3, <2>5, RowSound
  <2>7. StateKept' BY <2>1, <2>6 DEF StateKept
  <2>8. ASSUME point # NoPoint, point.state.ready
        PROVE  Carried(point.state.sessions, point'.state.sessions)
    <3>1. h[n].state.ready BY <1>1, <2>8, RowBelow DEF Commit, Ready, Top
    <3> QED BY <2>1, <2>5, <2>6, <2>8, <3>1
  <2>9. SealedStays BY <2>8 DEF SealedStays, Carried, SessionCarried
  <2> QED BY <2>7, <2>9
<1>2. CASE ~Unmoved(w)
  <2>1. point' = point BY <1>2 DEF Commit
  <2> QED BY <2>1, PointStill
<1> QED BY <1>1, <1>2

LEMMA SessionsStep == Inv /\ StateKept /\ [Next]_vars => StateKept' /\ (StateValid' /\ SealedStays)
<1> SUFFICES ASSUME Inv, StateKept, [Next]_vars PROVE StateKept' /\ SealedStays
  BY DEF StateKept, StateOk, StateValid
<1>1. ASSUME NEW w \in Workers, Step(w) PROVE StateKept' /\ SealedStays
  <2>1. CASE Commit(w) BY <2>1, CommitSound
  <2>2. CASE ~Commit(w)
    <3>1. point' = point
      BY <1>1, <2>2 DEF Step, Look, Lookup, Pin, Fetch, Reserve, CopyOver, Refund, Read, Attest,
                        Prepare, Bury, Check, Confirm, Settle
    <3> QED BY <3>1, PointStill
  <2> QED BY <2>1, <2>2
<1>2. CASE LosePoint
  <2>1. point' = NoPoint BY <1>2 DEF LosePoint
  <2>2. StateOk(NoPoint.state) BY PrefixSound DEF NoPoint
  <2> QED BY <2>1, <2>2 DEF StateKept, SealedStays
<1>3. CASE \/ \E e \in Entries : Admit(e)
           \/ \E p \in Producers : Recover(p) \/ \E e \in Entries : Ask(p, e)
           \/ \E w \in Workers : Interrupt(w) \/ \E e \in Entries : Take(w, e)
           \/ Serve
  <2>1. point' = point BY <1>3 DEF Admit, Recover, Ask, Interrupt, Take, Serve
  <2> QED BY <2>1, PointStill
<1>4. CASE UNCHANGED vars
  <2>1. point' = point BY <1>4 DEF vars
  <2> QED BY <2>1, PointStill
<1> QED BY <1>1, <1>2, <1>3, <1>4 DEF Next

(* Whatever operations are committed, in any order of workers, repeated    *)
(* deliveries and faults: clocks, anchors, ledgers and bounds of the       *)
(* state are what its own reader demands, and a session that was sealed    *)
(* learns nothing more in that epoch.                                      *)
THEOREM SessionsTheorem == Spec => SessionsKept
<1>1. Init => StateKept BY PrefixSound DEF Init, NoPoint, StateKept
<1>2. Inv /\ StateKept /\ [Next]_vars => StateKept' /\ [StateValid' /\ SealedStays]_vars
  BY SessionsStep
<1> QED BY <1>1, <1>2, JournalInvariant, PTL DEF Spec, SessionsKept
=============================================================================
