--------------------------- MODULE Categorization ---------------------------
(***************************************************************************)
(* The category of an item that is created without one: the category       *)
(* index, a write-through cache in the database, before a vote of the      *)
(* nearest anchors, before keyword matching, before "General".  Which of   *)
(* these a server has is decided when it starts, and then the index is     *)
(* seeded with the anchors.                                                *)
(*                                                                         *)
(* A release of the server is a number: how many rows of the table of      *)
(* anchors it has.  Descriptions are normalised keys.  The categories that *)
(* the strategies give are values here; the similarity of texts is the     *)
(* embedding model's and a constant.                                       *)
(***************************************************************************)
EXTENDS Integers, Sequences, FiniteSetsExt

CONSTANTS Descriptions,
          Releases,
          Similarity,   \* [Descriptions -> [row of the table -> score]]
          Threshold,    \* scores below it are no match
          TopK,         \* neighbours that vote
          Requests      \* as many requests can be in flight at once

General == "General"
Declined == ""          \* no category; also no entry in the index

\* Rows of the table of some 430, in its order: three of one category, and one
\* of another that the more general row before it hides.
GroceryAnchors ==
  << [term |-> "cream cheese", category |-> "Eggs & Dairy"],
     [term |-> "milk",         category |-> "Eggs & Dairy"],
     [term |-> "cream",        category |-> "Eggs & Dairy"],
     [term |-> "ice cream",    category |-> "Frozen"] >>

Categories == {GroceryAnchors[i].category : i \in DOMAIN GroceryAnchors}
Rows(v) == 1 .. v

ASSUME CategorizationAssumption ==
  /\ Releases \subseteq DOMAIN GroceryAnchors /\ Releases # {}
  /\ Similarity \in [Descriptions -> [DOMAIN GroceryAnchors -> Nat]]
  /\ Threshold \in Nat /\ TopK \in Nat

VARIABLES
  server,     \* "down", or the strategies of the one running: see Start
  release,    \* the release running, or last run
  index,      \* the category_index collection
  query,      \* the categorizations in flight, one for a request
  seeded,     \* history: the last seeding stored every anchor
  ran,        \* history: the releases that have run
  answers,    \* history: answers of this run of the server, no call having failed
  missed      \* history: keys written through after a failed look-up

category_vars == <<server, release, index, query, seeded, ran, answers, missed>>

Query == [step: {"lookup", "embed", "upsert", "answered"}, key: Descriptions,
          cat: Categories \cup {General, Declined}, failed: BOOLEAN]
NoQuery == [step |-> "none"]

CategorizationTypeOK ==
  /\ server \in {"down", "keyword", "embedding", "cached"}
  /\ release \in Releases
  /\ index \in [Descriptions -> Categories \cup {Declined}]
  /\ query \in [Requests -> Query \cup {NoQuery}]
  /\ server = "down" => \A q \in Requests : query[q] = NoQuery
  /\ seeded \in BOOLEAN
  /\ ran \subseteq Releases
  /\ answers \in [Descriptions -> SUBSET (Categories \cup {General})]
  /\ missed \subseteq Descriptions

----------------------------------------------------------------------------
\* The strategies.

\* strings.Contains, for the terms above.
HasTerm(d, t) ==
  <<d, t>> \in {<<"ice cream", "cream">>, <<"ice cream", "ice cream">>,
                <<"cream cheese", "cream cheese">>, <<"cream cheese", "cream">>,
                <<"milk crate", "milk">>}

\* The first row whose term the description contains.
Keyword(v, d) ==
  LET hits == {i \in Rows(v) : HasTerm(d, GroceryAnchors[i].term)}
  IN  IF hits = {} THEN Declined ELSE GroceryAnchors[Min(hits)].category

\* The rows nearest to the description.
Nearest(v, d) ==
  CHOOSE near \in kSubset(Min({v, Max({TopK, 1})}), Rows(v)) :
    \A i \in near, j \in Rows(v) \ near : Similarity[d][i] >= Similarity[d][j]

Weight(near, d, c) ==
  LET vote(i) == IF i \in near /\ GroceryAnchors[i].category = c THEN Similarity[d][i] ELSE 0
  IN  vote(1) + vote(2) + vote(3) + vote(4)

\* The category of most weight wins; between equals, the first by name.
ByName == <<"Eggs & Dairy", "Frozen">>
KnnVote(near, d) ==
  LET weight(n) == Weight(near, d, ByName[n])
  IN  ByName[CHOOSE n \in DOMAIN ByName : \A m \in DOMAIN ByName :
               weight(m) < weight(n) \/ (weight(m) = weight(n) /\ n <= m)]

\* It declines when even the nearest row is not similar.
Embedding ==
  [v \in Releases |-> [d \in Descriptions |->
    LET near == Nearest(v, d)
    IN  IF Max({0} \cup {Similarity[d][i] : i \in near}) < Threshold
          THEN Declined ELSE KnnVote(near, d)]]

\* What follows in the chain when its first member gives c.
Chain(v, d, c) ==
  CASE c # Declined -> c
    [] c = Declined /\ Keyword(v, d) # Declined -> Keyword(v, d)
    [] OTHER -> General

\* The category of an anchor by the table itself.
Anchored(v) == {GroceryAnchors[i].term : i \in Rows(v)}
AnchorCategory(d) ==
  GroceryAnchors[CHOOSE i \in DOMAIN GroceryAnchors : GroceryAnchors[i].term = d].category

----------------------------------------------------------------------------
\* The server starts and stops.

CategorizationInit ==
  /\ index = [d \in Descriptions |-> Declined]
  /\ query = [q \in Requests |-> NoQuery]
  /\ seeded = FALSE
  /\ ran = {}
  /\ answers = [d \in Descriptions |-> {}]
  /\ missed = {}

\* Variant: seeding leaves the entries alone that are there.
Seed_IfAbsent(v, stored) ==
  index' = [d \in Descriptions |->
    IF d \in stored /\ index[d] = Declined THEN AnchorCategory(d) ELSE index[d]]

\* Upserts of all anchors in no order; if it fails, some of them are stored.
Seed(v, stored) ==
  index' = [d \in Descriptions |-> IF d \in stored THEN AnchorCategory(d) ELSE index[d]]

Strategies(indexed, embedder) ==
  CASE ~embedder -> "keyword" [] embedder /\ ~indexed -> "embedding" [] OTHER -> "cached"

\* The index is there if it is enabled and its unique index could be made; it
\* is seeded whether or not there is an embedder to put it in front of.
Start(v, indexed, embedder, stored) ==
  /\ server = "down"
  /\ stored \subseteq (IF indexed THEN Anchored(v) \cap Descriptions ELSE {})
  /\ server' = Strategies(indexed, embedder)
  /\ release' = v
  /\ Seed(v, stored)
  /\ seeded' = (indexed /\ stored = Anchored(v) \cap Descriptions)
  /\ ran' = ran \cup {v}
  /\ missed' = missed \ stored
  /\ UNCHANGED <<query, answers>>

\* A crash, or a shutdown that does not wait any longer: requests end anywhere.
Stop ==
  /\ server # "down"
  /\ server' = "down"
  /\ query' = [q \in Requests |-> NoQuery]
  /\ answers' = [d \in Descriptions |-> {}]
  /\ UNCHANGED <<release, index, seeded, ran, missed>>

----------------------------------------------------------------------------
\* One categorization, call by call.

AtQuery(q, step) == query[q].step = step

\* The query after the chain has had c from its first member.
Answered(q, c, failed) ==
  LET cat == Chain(release, query[q].key, c)
  IN  /\ query' = [query EXCEPT ![q] =
           [@ EXCEPT !.step = "answered", !.cat = cat, !.failed = failed]]
      /\ answers' = IF failed THEN answers ELSE [answers EXCEPT ![query[q].key] = @ \cup {cat}]

GoOn(q, step, c, failed) ==
  /\ query' = [query EXCEPT ![q] = [@ EXCEPT !.step = step, !.cat = c, !.failed = failed]]
  /\ UNCHANGED answers

\* The chain begins with what the server has.
Categorize(q, d) ==
  LET keyword == Chain(release, d, Declined)
      asking(step, cat) == [query EXCEPT ![q] = [step |-> step, key |-> d, cat |-> cat, failed |-> FALSE]]
  IN  /\ query' = CASE server = "cached" -> asking("lookup", Declined)
                    [] server = "embedding" -> asking("embed", Declined)
                    [] server = "keyword" -> asking("answered", keyword)
      /\ answers' = IF server = "keyword" THEN [answers EXCEPT ![d] = @ \cup {keyword}] ELSE answers
      /\ UNCHANGED <<server, release, index, seeded, ran, missed>>

\* Variant: a hit is answered and the entry brought up to date.
Lookup_Refreshing(q) ==
  /\ AtQuery(q, "lookup")
  /\ LET d == query[q].key
         fresh == Embedding[release][d]
     IN  IF index[d] # Declined
           THEN /\ Answered(q, index[d], FALSE)
                /\ index' = IF fresh # Declined THEN [index EXCEPT ![d] = fresh] ELSE index
           ELSE GoOn(q, "embed", Declined, FALSE) /\ UNCHANGED index
  /\ UNCHANGED <<server, release, seeded, ran, missed>>

Lookup(q) ==
  /\ AtQuery(q, "lookup")
  /\ IF index[query[q].key] # Declined
       THEN Answered(q, index[query[q].key], FALSE)
       ELSE GoOn(q, "embed", Declined, FALSE)
  /\ UNCHANGED <<server, release, index, seeded, ran, missed>>

\* A failed look-up is taken for a miss.
LookupFails(q) ==
  /\ AtQuery(q, "lookup")
  /\ GoOn(q, "embed", Declined, TRUE)
  /\ UNCHANGED <<server, release, index, seeded, ran, missed>>

\* Variant: the whole chain is cached.
Embed_ChainCached(q) ==
  LET cat == Chain(release, query[q].key, Embedding[release][query[q].key])
  IN  /\ AtQuery(q, "embed")
      /\ IF server = "cached" /\ cat # General
           THEN GoOn(q, "upsert", cat, query[q].failed)
           ELSE Answered(q, cat, query[q].failed)
      /\ UNCHANGED <<server, release, index, seeded, ran, missed>>

\* The nearest anchors vote; only an answer of theirs is cached.
Embed(q) ==
  LET cat == Embedding[release][query[q].key]
  IN  /\ AtQuery(q, "embed")
      /\ IF server = "cached" /\ cat # Declined /\ cat # General
           THEN GoOn(q, "upsert", cat, query[q].failed)
           ELSE Answered(q, cat, query[q].failed)
      /\ UNCHANGED <<server, release, index, seeded, ran, missed>>

EmbedFails(q) ==
  /\ AtQuery(q, "embed")
  /\ Answered(q, Declined, TRUE)
  /\ UNCHANGED <<server, release, index, seeded, ran, missed>>

\* Written through, over whatever is there by now.
Upsert(q) ==
  LET d == query[q].key
  IN  /\ AtQuery(q, "upsert")
      /\ index' = [index EXCEPT ![d] = query[q].cat]
      /\ Answered(q, query[q].cat, query[q].failed)
      /\ missed' = IF query[q].failed THEN missed \cup {d} ELSE missed
      /\ UNCHANGED <<server, release, seeded, ran>>

\* The answer stands although it could not be stored.
UpsertFails(q) ==
  /\ AtQuery(q, "upsert")
  /\ Answered(q, query[q].cat, query[q].failed)
  /\ UNCHANGED <<server, release, index, seeded, ran, missed>>

CategorizationStep(q) ==
  \/ Lookup(q) \/ LookupFails(q)
  \/ Embed(q) \/ EmbedFails(q)
  \/ Upsert(q) \/ UpsertFails(q)

----------------------------------------------------------------------------
\* Properties.

\* While a server runs that has seeded its index, each anchor has its own
\* category there, whatever an earlier release or the vote of its neighbours
\* made of it; only a look-up that failed lets a request overwrite it.
AnchorsInForce ==
  server # "down" /\ seeded =>
    \A d \in (Anchored(release) \cap Descriptions) \ missed : index[d] = AnchorCategory(d)

\* Every entry is an anchor's category, or what the nearest anchors voted for,
\* in some release that has run: keyword matches and "General", given when the
\* embedder fails or declines, are never remembered.
EntriesExplained ==
  \A d \in Descriptions : index[d] # Declined =>
    \E v \in ran : \/ d \in Anchored(v) /\ index[d] = AnchorCategory(d)
                   \/ index[d] = Embedding[v][d]

\* As long as a server runs, requests for the same description get the same
\* category, those at the same time and those of which one finds what the other
\* has stored; only failing calls make a difference.
OneAnswerPerRun == \A d \in Descriptions \ missed : Cardinality(answers[d]) <= 1
=============================================================================
