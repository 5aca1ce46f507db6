----------------------------- MODULE TowerVectors -----------------------------
(***************************************************************************)
(* embed_repository(): the towers of a repository looked up in the cache   *)
(* of the frozen encoder or encoded together in bounded groups, divided    *)
(* again, combined, and published once the payload was built.  Several     *)
(* jobs share the cache.  A text is a name; a vector is what it was made   *)
(* from: the model, and the weighted texts.                                *)
(***************************************************************************)
EXTENDS ReadmeSections

CONSTANTS EmbedWorkers,
          Documents,      \* readme: a sequence of [text, class]; metadata, topics: a text
          GroupSize,      \* min(MAX_ENCODER_BATCH_TEXTS, tokens / max_seq_length)
          CacheEntries    \* max_entries

Towers == <<"readme", "metadata", "topics">>

ASSUME TowerAssumption ==
  /\ {GroupSize, CacheEntries} \subseteq Nat \ {0}
  /\ Documents # {}
  /\ \A d \in Documents : DOMAIN d = ToSet(Towers) /\ d.readme \in Seq(ToSet(d.readme))

VARIABLES
  towers, \* the cache, oldest first: [key, vector]
  embed   \* worker -> stage, document, encoder, vectors, towers missing, encoded

towerVars == <<towers, embed>>

NoVector == <<"none">>
NoVectors == [t \in ToSet(Towers) |-> NoVector]

\* A job with no text encoded and no tower looked at.
Job(stage, d, model, vectors, missing) ==
  [at |-> stage, document |-> d, model |-> model, next |-> 1, vectors |-> vectors, missing |-> missing, encoded |-> <<>>]

TowerInit ==
  /\ towers = <<>>
  /\ embed = [w \in EmbedWorkers |-> Job("idle", CHOOSE d \in Documents : TRUE, "frozen", NoVectors, {})]

Document(w) == embed[w].document
Texts(d, t) == IF t = "readme" THEN [k \in DOMAIN d.readme |-> d.readme[k].text] ELSE <<d[t]>>
Plan(d, t) == IF t = "readme" THEN [k \in DOMAIN d.readme |-> d.readme[k].class] ELSE <<>>

\* The vector of a text, and of the weighted texts of a README.
Encoding(model, x) == <<model, x>>
Aggregate(vectors, plan) == <<"sum", vectors, plan>>
Tower(t, vectors, plan) == IF t = "readme" THEN Aggregate(vectors, plan) ELSE vectors[1]

\* fingerprint(): the exact inputs of a tower, its sections' weights included.
\* Mutant: the sections' classes are not part of it.
KeyUnplanned(d, t) == <<t, Texts(d, t)>>
Key(d, t) == <<t, Texts(d, t), Plan(d, t)>>

---------------------------------------------------------------------------
\* An embedder that is not the cache's own goes without it.
StartEmbedding(w) ==
  /\ embed[w].at \in {"idle", "embedded"}
  /\ \E d \in Documents, model \in {"frozen", "other"} :
       embed' = [embed EXCEPT ![w] = Job("look", d, model, NoVectors, {})]
  /\ UNCHANGED towers

Held(k) == {i \in DOMAIN towers : towers[i].key = k}
Refreshed(i) == Append(RemoveAt(towers, i), towers[i])

\* The towers one after the other: an empty README has no vector at all, a
\* cached one is used, any other is missing.
Look(w) ==
  /\ embed[w].at = "look" /\ embed[w].next <= Len(Towers)
  /\ LET t == Towers[embed[w].next]
         d == Document(w)
         hits == IF embed[w].model = "frozen" THEN Held(Key(d, t)) ELSE {}
     IN  \/ /\ Texts(d, t) = <<>>
            /\ embed' = [embed EXCEPT ![w].next = @ + 1] /\ UNCHANGED towers
         \/ /\ Texts(d, t) # <<>> /\ hits = {}
            /\ embed' = [embed EXCEPT ![w].next = @ + 1, ![w].missing = @ \cup {t}] /\ UNCHANGED towers
         \/ /\ Texts(d, t) # <<>>
            /\ \E i \in hits :
                 /\ embed' = [embed EXCEPT ![w].next = @ + 1, ![w].vectors[t] = towers[i].vector]
                 /\ towers' = Refreshed(i)

\* The texts to encode, tower by tower, and where a tower's begin.
Asked(d, missing, t) == IF t \in missing THEN Texts(d, t) ELSE <<>>
Inputs(d, missing) == Asked(d, missing, "readme") \o Asked(d, missing, "metadata") \o Asked(d, missing, "topics")
Offset(d, missing, t) ==
  CASE t = "readme" -> 0
    [] t = "metadata" -> Len(Asked(d, missing, "readme"))
    [] OTHER -> Len(Asked(d, missing, "readme")) + Len(Asked(d, missing, "metadata"))

\* embed_texts(): the encoder is released between two groups.
Encode(w) ==
  LET inputs == Inputs(Document(w), embed[w].missing)
      from == Len(embed[w].encoded)
      count == IF from + GroupSize < Len(inputs) THEN GroupSize ELSE Len(inputs) - from
  IN  /\ embed[w].at = "look" /\ embed[w].next > Len(Towers) /\ from < Len(inputs)
      /\ embed' = [embed EXCEPT ![w].encoded = @ \o [k \in 1..count |-> Encoding(embed[w].model, inputs[from + k])]]
      /\ UNCHANGED towers

\* The encoder fails, or answers with another number of vectors.
FailEncoding(w) ==
  /\ embed[w].at \in {"look", "build"}
  /\ embed' = [embed EXCEPT ![w] = Job("idle", Document(w), embed[w].model, NoVectors, {})]
  /\ UNCHANGED towers

\* A tower's vector: from the cache, or of its share of those encoded.
Divided(e, t) ==
  LET from == Offset(e.document, e.missing, t)
  IN  IF t \notin e.missing THEN e.vectors[t]
      ELSE Tower(t, SubSeq(e.encoded, from + 1, from + Len(Texts(e.document, t))), Plan(e.document, t))

Divide(w) ==
  /\ embed[w].at = "look" /\ embed[w].next > Len(Towers)
  /\ Len(embed[w].encoded) = Len(Inputs(Document(w), embed[w].missing))
  /\ LET vectors == [t \in ToSet(Towers) |-> Divided(embed[w], t)]
     IN  embed' = [embed EXCEPT ![w] = Job("build", Document(w), embed[w].model, vectors, embed[w].missing)]
  /\ UNCHANGED towers

\* put(): the entry is the newest, and the oldest ones make room for it.
Without(k) == IF Held(k) = {} THEN towers ELSE RemoveAt(towers, CHOOSE i \in Held(k) : TRUE)
Newest(entries) ==
  IF Len(entries) < CacheEntries THEN entries ELSE SubSeq(entries, Len(entries) - CacheEntries + 2, Len(entries))
PutTower(k, vector) == Append(Newest(Without(k)), [key |-> k, vector |-> vector])

\* The missing tower whose turn it is.
First(t, missing) == \E i \in DOMAIN Towers : Towers[i] = t /\ t \in missing /\ \A j \in 1..(i - 1) : Towers[j] \notin missing

\* build_vector_payload() passed: the computed towers are published one by one.
PublishVectors(w) ==
  /\ embed[w].at = "build"
  /\ \/ /\ embed[w].model = "frozen"
        /\ \E t \in embed[w].missing :
             /\ First(t, embed[w].missing)
             /\ towers' = PutTower(Key(Document(w), t), embed[w].vectors[t])
             /\ embed' = [embed EXCEPT ![w].missing = @ \ {t}]
     \/ /\ embed[w].model # "frozen" \/ embed[w].missing = {}
        /\ embed' = [embed EXCEPT ![w].at = "embedded", ![w].missing = {}] /\ UNCHANGED towers

Embed(w) == StartEmbedding(w) \/ Look(w) \/ Encode(w) \/ FailEncoding(w) \/ Divide(w) \/ PublishVectors(w)
TowerNext == \E w \in EmbedWorkers : Embed(w)
TowerSpec == TowerInit /\ [][TowerNext]_towerVars

---------------------------------------------------------------------------
\* A repository's towers are the vectors of its own texts, with its own
\* sections' weights and its own model, whatever other jobs left in the cache
\* and however the encoder's groups cut across the towers.
Wanted(w, t) ==
  LET d == Document(w) IN
  IF Texts(d, t) = <<>> THEN NoVector
  ELSE Tower(t, [k \in DOMAIN Texts(d, t) |-> Encoding(embed[w].model, Texts(d, t)[k])], Plan(d, t))

TowersOwn ==
  /\ \A w \in EmbedWorkers : embed[w].at \in {"build", "embedded"} =>
       \A t \in ToSet(Towers) : embed[w].vectors[t] = Wanted(w, t)
  /\ Len(towers) <= CacheEntries /\ \A j, k \in DOMAIN towers : towers[j].key = towers[k].key => j = k

\* What the encoder is given of a README, and what becomes of it: sections
\* that keep to the outline, chunks that cover them, vectors of the texts they
\* stand for.
TextsSound == SectionsOutlined /\ ChunksCover /\ TowersOwn
=============================================================================
