------------------------ MODULE CategorizationProofs ------------------------
(***************************************************************************)
(* Proofs about Categorization: what its strategies can answer, and what   *)
(* the steps of a categorization, of the start and of the stop of a server *)
(* keep, for every set of descriptions, every similarity and any number of *)
(* requests.  ItemsProofs.tla puts them together with the other steps.     *)
(***************************************************************************)
EXTENDS Categorization, FiniteSetTheorems, TLAPS

----------------------------------------------------------------------------
\* What the strategies answer.

LEMMA OneToFour == \A i \in 1 .. 4 : i = 1 \/ i = 2 \/ i = 3 \/ i = 4
  OBVIOUS

LEMMA RowCategories ==
  /\ DOMAIN GroceryAnchors = 1 .. 4
  /\ \A i \in 1 .. 4 : GroceryAnchors[i].category \in Categories
  /\ Categories = {"Eggs & Dairy", "Frozen"}
<1>1. DOMAIN GroceryAnchors = 1 .. 4
  BY DEF GroceryAnchors
<1>2. /\ GroceryAnchors[1].category = "Eggs & Dairy"
      /\ GroceryAnchors[2].category = "Eggs & Dairy"
      /\ GroceryAnchors[3].category = "Eggs & Dairy"
      /\ GroceryAnchors[4].category = "Frozen"
  BY DEF GroceryAnchors
<1>3. Categories = {GroceryAnchors[i].category : i \in 1 .. 4}
  BY <1>1 DEF Categories
<1>4. ASSUME NEW c PROVE c \in Categories <=> c \in {"Eggs & Dairy", "Frozen"}
  <2>1. c \in Categories => c \in {"Eggs & Dairy", "Frozen"}
    BY <1>2, <1>3, OneToFour
  <2>2. "Eggs & Dairy" \in Categories /\ "Frozen" \in Categories
    <3>1. 1 \in 1 .. 4 /\ 4 \in 1 .. 4
      OBVIOUS
    <3> QED
      BY <1>2, <1>3, <3>1
  <2> QED
    BY <2>1, <2>2
<1> QED
  BY <1>1, <1>3, <1>4

LEMMA ReleaseRows ==
  ASSUME NEW v \in Releases PROVE Rows(v) \in SUBSET (1 .. 4)
<1>1. v \in 1 .. 4
  BY CategorizationAssumption, RowCategories
<1>2. v \in Nat /\ v <= 4
  BY <1>1
<1> QED
  BY <1>2 DEF Rows

\* A non-empty set of numbers has a least one.
LEMMA LeastIn ==
  ASSUME NEW less, IsWellFoundedOn(less, Nat), \A x, y \in Nat : y < x => <<y, x>> \in less,
         NEW S \in SUBSET Nat, S # {}
  PROVE  \E x \in S : \A y \in S : x <= y
<1>1. PICK x \in S : \A y \in S : ~(<<y, x>> \in less)
  BY WFMin
<1>2. ASSUME NEW y \in S PROVE x <= y
  <2>1. ~(y < x)
    BY <1>1
  <2> QED
    BY <2>1
<1> QED
  BY <1>2

LEMMA LeastNatural ==
  ASSUME NEW S \in SUBSET Nat, S # {}
  PROVE  \E x \in S : \A y \in S : x <= y
<1>1. \A x, y \in Nat : y < x => <<y, x>> \in OpToRel(<, Nat)
  BY DEF OpToRel
<1> QED
  BY <1>1, LeastIn, NatLessThanWellFounded

LEMMA LastRelease == Max(Releases) \in Releases
<1>1. Releases \in SUBSET (1 .. 4) /\ Releases # {}
  BY CategorizationAssumption, RowCategories
<1>2. \E x \in Releases : \A y \in Releases : x >= y
  <2> USE <1>1
  <2>1. CASE 4 \in Releases
    BY <2>1
  <2>2. CASE 4 \notin Releases /\ 3 \in Releases
    BY <2>2
  <2>3. CASE 4 \notin Releases /\ 3 \notin Releases /\ 2 \in Releases
    BY <2>3
  <2>4. CASE 4 \notin Releases /\ 3 \notin Releases /\ 2 \notin Releases
    <3>1. \A y \in Releases : y = 1
      BY <2>4, OneToFour
    <3>2. 1 \in Releases
      BY <3>1
    <3> QED
      BY <3>1, <3>2
  <2> QED
    BY <2>1, <2>2, <2>3, <2>4
<1> QED
  BY <1>2 DEF Max

LEMMA KeywordRange ==
  ASSUME NEW v \in Releases, NEW d PROVE Keyword(v, d) \in Categories \cup {Declined}
<1> DEFINE hits == {i \in Rows(v) : HasTerm(d, GroceryAnchors[i].term)}
<1>1. hits \in SUBSET (1 .. 4)
  BY ReleaseRows
<1>2. hits # {} => Min(hits) \in 1 .. 4
  <2> HIDE DEF hits
  <2>1. hits \in SUBSET Nat
    BY <1>1
  <2>2. hits # {} => \E i \in hits : \A j \in hits : i <= j
    BY <2>1, LeastNatural
  <2> QED
    BY <1>1, <2>2 DEF Min
<1> HIDE DEF hits
<1>3. hits # {} => GroceryAnchors[Min(hits)].category \in Categories
  BY <1>2, RowCategories
<1>4. Keyword(v, d) = IF hits = {} THEN Declined ELSE GroceryAnchors[Min(hits)].category
  BY DEF Keyword, hits
<1> QED
  BY <1>3, <1>4

LEMMA WeightNat ==
  ASSUME NEW d \in Descriptions, NEW near, NEW c PROVE Weight(near, d, c) \in Nat
<1>1. \A i \in 1 .. 4 : Similarity[d][i] \in Nat
  BY CategorizationAssumption, RowCategories
<1> QED
  BY <1>1 DEF Weight

\* Whatever the similarities, one of the categories wins.
LEMMA VoteRange ==
  ASSUME NEW d \in Descriptions, NEW near PROVE KnnVote(near, d) \in Categories
<1> DEFINE w(n) == Weight(near, d, ByName[n])
           wins(n) == \A m \in DOMAIN ByName : w(m) < w(n) \/ (w(m) = w(n) /\ n <= m)
<1>1. DOMAIN ByName = 1 .. 2 /\ \A n \in 1 .. 2 : ByName[n] \in Categories
  <2>1. \A n \in 1 .. 2 : n = 1 \/ n = 2
    OBVIOUS
  <2>2. ByName[1] = "Eggs & Dairy" /\ ByName[2] = "Frozen"
    BY DEF ByName
  <2>3. DOMAIN ByName = 1 .. 2
    BY DEF ByName
  <2> QED
    BY <2>1, <2>2, <2>3, RowCategories
<1>2. \A n \in 1 .. 2 : w(n) \in Nat
  BY WeightNat
<1> HIDE DEF w
<1>3. \E n \in 1 .. 2 : \A m \in 1 .. 2 : w(m) < w(n) \/ (w(m) = w(n) /\ n <= m)
  <2>1. w(1) \in Nat /\ w(2) \in Nat
    BY <1>2
  <2>2. \A m \in 1 .. 2 : m = 1 \/ m = 2
    OBVIOUS
  <2>3. CASE w(1) >= w(2)
    BY <2>1, <2>2, <2>3
  <2>4. CASE w(2) > w(1)
    BY <2>1, <2>2, <2>4
  <2> QED
    BY <2>1, <2>3, <2>4
<1>4. (CHOOSE n \in DOMAIN ByName : wins(n)) \in 1 .. 2
  BY <1>1, <1>3
<1>5. KnnVote(near, d) = ByName[CHOOSE n \in DOMAIN ByName : wins(n)]
  BY DEF KnnVote, w
<1> QED
  BY <1>1, <1>4, <1>5

LEMMA EmbeddingRange ==
  ASSUME NEW v \in Releases, NEW d \in Descriptions
  PROVE  Embedding[v][d] \in Categories \cup {Declined}
<1> DEFINE near == Nearest(v, d)
<1>1. KnnVote(near, d) \in Categories
  BY VoteRange
<1> HIDE DEF near
<1>2. Embedding[v][d] = IF Max({0} \cup {Similarity[d][i] : i \in near}) < Threshold
                          THEN Declined ELSE KnnVote(near, d)
  BY DEF Embedding, near
<1> QED
  BY <1>1, <1>2

LEMMA ChainRange ==
  ASSUME NEW v \in Releases, NEW d, NEW c \in Categories \cup {General, Declined}
  PROVE  /\ Chain(v, d, c) \in Categories \cup {General}
         /\ c # Declined => Chain(v, d, c) = c
  BY KeywordRange DEF Chain

LEMMA CategoryNames ==
  General \notin Categories /\ Declined \notin Categories /\ General # Declined
  BY RowCategories DEF General, Declined

LEMMA AnchorCategoryRange ==
  ASSUME NEW v \in Releases, NEW d \in Anchored(v) PROVE AnchorCategory(d) \in Categories
<1>1. \E i \in DOMAIN GroceryAnchors : GroceryAnchors[i].term = d
  BY ReleaseRows, RowCategories DEF Anchored
<1> QED
  BY <1>1, RowCategories DEF AnchorCategory

----------------------------------------------------------------------------
\* The inductive invariant.

\* A query under way asks what its server has.  Its answer, if it is going to be
\* stored, is the embedder's; and if its look-up did not fail, the index had no
\* entry in this run, so that all there can be by now is that same answer.
QueryOK(q) ==
  /\ query[q].step \in {"lookup", "upsert"} => server = "cached"
  /\ query[q].step = "embed" => server \in {"cached", "embedding"}
  /\ query[q].step = "upsert" =>
       query[q].cat = Embedding[release][query[q].key] /\ query[q].cat # Declined
  /\ query[q].step \in {"embed", "upsert"} /\ server = "cached" /\ ~query[q].failed =>
       /\ index[query[q].key] \in {Declined, Embedding[release][query[q].key]}
       /\ seeded /\ query[q].key \in Anchored(release) => query[q].key \in missed
QueriesOK == \A q \in Requests : QueryOK(q)

ServerOK ==
  /\ server = "down" => \A d \in Descriptions : answers[d] = {}
  /\ server = "embedding" => ~seeded
  /\ server \in {"embedding", "cached"} => release \in ran

\* What this run of the server answers as long as no call fails.
Expected(d) ==
  IF server = "keyword" THEN Chain(release, d, Declined)
  ELSE IF server = "cached" /\ index[d] # Declined THEN index[d]
  ELSE Chain(release, d, Embedding[release][d])
AnswersExpected ==
  server # "down" => \A d \in Descriptions \ missed : answers[d] \subseteq {Expected(d)}

CategorizationInv ==
  /\ CategorizationTypeOK /\ QueriesOK /\ ServerOK /\ AnswersExpected
  /\ AnchorsInForce /\ EntriesExplained

rest == <<server, release, index, seeded, ran, missed>>

LEMMA QueryShape ==
  ASSUME CategorizationInv, NEW q \in Requests, query[q].step # "none"
  PROVE  query[q] \in Query /\ query[q].key \in Descriptions /\ server # "down" /\ release \in Releases
  BY DEF CategorizationInv, CategorizationTypeOK, NoQuery, Query

LEMMA CategorizationSame ==
  ASSUME CategorizationInv, UNCHANGED category_vars PROVE CategorizationInv'
  BY DEF CategorizationInv, CategorizationTypeOK, QueriesOK, QueryOK, ServerOK, AnswersExpected,
         Expected, AnchorsInForce, EntriesExplained, category_vars

\* A query moves, ends or begins, and answers at most what is expected.
LEMMA QueryMoves ==
  ASSUME CategorizationInv, UNCHANGED rest, NEW q \in Requests, NEW x,
         query' = [query EXCEPT ![q] = x],
         x = NoQuery \/ (x \in Query /\ QueryOK(q)' /\ server # "down"),
         NEW d \in Descriptions, NEW c \in Categories \cup {General},
         \/ answers' = answers
         \/ /\ answers' = [answers EXCEPT ![d] = @ \cup {c}]
            /\ server # "down"
            /\ d \notin missed => c = Expected(d)
  PROVE  CategorizationInv'
<1> USE DEF rest
<1>1. query' \in [Requests -> Query \cup {NoQuery}] /\ query'[q] = x
  BY DEF CategorizationInv, CategorizationTypeOK
<1>2. answers' \in [Descriptions -> SUBSET (Categories \cup {General})]
  BY DEF CategorizationInv, CategorizationTypeOK
<1>3. CategorizationTypeOK'
  <2>1. server' = "down" => \A p \in Requests : query'[p] = NoQuery
    BY DEF CategorizationInv, CategorizationTypeOK
  <2> QED
    BY <1>1, <1>2, <2>1 DEF CategorizationInv, CategorizationTypeOK
<1>4. ASSUME NEW p \in Requests PROVE QueryOK(p)'
  <2>1. CASE p = q
    BY <1>1, <2>1 DEF QueryOK, NoQuery
  <2>2. CASE p # q
    <3>1. query'[p] = query[p] /\ QueryOK(p)
      BY <2>2 DEF CategorizationInv, CategorizationTypeOK, QueriesOK
    <3> QED
      BY <3>1 DEF QueryOK
  <2> QED
    BY <2>1, <2>2
<1>5. ServerOK'
  BY DEF CategorizationInv, CategorizationTypeOK, ServerOK
<1>6. AnswersExpected'
  BY DEF CategorizationInv, CategorizationTypeOK, AnswersExpected, Expected
<1>7. AnchorsInForce' /\ EntriesExplained'
  BY DEF CategorizationInv, AnchorsInForce, EntriesExplained
<1> QED
  BY <1>3, <1>4, <1>5, <1>6, <1>7 DEF CategorizationInv, QueriesOK

LEMMA QueryEnds ==
  ASSUME CategorizationInv, NEW q \in Requests, query' = [query EXCEPT ![q] = NoQuery],
         UNCHANGED <<rest, answers>>
  PROVE  CategorizationInv'
<1>1. CASE Descriptions = {}
  <2>1. ASSUME NEW p \in Requests PROVE query[p] = NoQuery
    BY <1>1 DEF CategorizationInv, CategorizationTypeOK, Query
  <2>2. query' = query
    BY <2>1 DEF CategorizationInv, CategorizationTypeOK
  <2> QED
    BY <2>2, CategorizationSame DEF rest, category_vars
<1>2. CASE Descriptions # {}
  BY <1>2, QueryMoves
<1> QED
  BY <1>1, <1>2

\* A query is answered by the chain, given what its first member gave.
LEMMA AnsweredKept ==
  ASSUME CategorizationInv, UNCHANGED rest, NEW q \in Requests, query[q].step # "none",
         NEW c \in Categories \cup {General, Declined}, NEW failed \in BOOLEAN,
         Answered(q, c, failed),
         ~failed /\ query[q].key \notin missed =>
           Chain(release, query[q].key, c) = Expected(query[q].key)
  PROVE  CategorizationInv'
<1> DEFINE d == query[q].key
           cat == Chain(release, d, c)
           x == [query[q] EXCEPT !.step = "answered", !.cat = cat, !.failed = failed]
<1>1. query[q] \in Query /\ d \in Descriptions /\ server # "down" /\ release \in Releases
  BY QueryShape
<1>2. cat \in Categories \cup {General}
  BY <1>1, ChainRange
<1>3. query' = [query EXCEPT ![q] = x]
  BY <1>1 DEF Answered, CategorizationInv, CategorizationTypeOK
<1>4. answers' = answers \/ (answers' = [answers EXCEPT ![d] = @ \cup {cat}] /\ ~failed)
  BY DEF Answered
<1> HIDE DEF cat
<1>5. x \in Query /\ x.step = "answered"
  BY <1>1, <1>2 DEF Query
<1> HIDE DEF x
<1>6. query'[q] = x
  BY <1>3 DEF CategorizationInv, CategorizationTypeOK
<1>7. QueryOK(q)'
  BY <1>5, <1>6 DEF QueryOK
<1> QED
  BY <1>1, <1>2, <1>3, <1>4, <1>5, <1>7, QueryMoves DEF cat

----------------------------------------------------------------------------
\* The steps of a categorization.

LEMMA CategorizeKept ==
  ASSUME CategorizationInv, NEW q \in Requests, NEW d \in Descriptions, server # "down",
         Categorize(q, d)
  PROVE  CategorizationInv'
<1> DEFINE keyword == Chain(release, d, Declined)
           x(step, cat) == [step |-> step, key |-> d, cat |-> cat, failed |-> FALSE]
<1>1. UNCHANGED rest /\ release \in Releases /\ server \in {"keyword", "embedding", "cached"}
  BY DEF Categorize, rest, CategorizationInv, CategorizationTypeOK
<1>2. keyword \in Categories \cup {General}
  BY <1>1, ChainRange
<1> HIDE DEF keyword
<1>3. CASE server = "cached"
  <2>1. x("lookup", Declined) \in Query
    BY DEF Query
  <2>2. query' = [query EXCEPT ![q] = x("lookup", Declined)] /\ answers' = answers
    BY <1>3 DEF Categorize
  <2>3. query'[q] = x("lookup", Declined)
    BY <2>2 DEF CategorizationInv, CategorizationTypeOK
  <2>4. QueryOK(q)'
    BY <1>1, <1>3, <2>3 DEF QueryOK, rest
  <2> QED
    BY <1>1, <1>2, <2>1, <2>2, <2>4, QueryMoves
<1>4. CASE server = "embedding"
  <2>1. x("embed", Declined) \in Query
    BY DEF Query
  <2>2. query' = [query EXCEPT ![q] = x("embed", Declined)] /\ answers' = answers
    BY <1>4 DEF Categorize
  <2>3. query'[q] = x("embed", Declined)
    BY <2>2 DEF CategorizationInv, CategorizationTypeOK
  <2>4. QueryOK(q)'
    BY <1>1, <1>4, <2>3 DEF QueryOK, rest
  <2> QED
    BY <1>1, <1>2, <2>1, <2>2, <2>4, QueryMoves
<1>5. CASE server = "keyword"
  <2>1. x("answered", keyword) \in Query
    BY <1>2 DEF Query
  <2>2. /\ query' = [query EXCEPT ![q] = x("answered", keyword)]
        /\ answers' = [answers EXCEPT ![d] = @ \cup {keyword}]
    BY <1>5 DEF Categorize, keyword
  <2>3. query'[q] = x("answered", keyword)
    BY <2>2 DEF CategorizationInv, CategorizationTypeOK
  <2>4. QueryOK(q)'
    BY <1>1, <1>5, <2>3 DEF QueryOK, rest
  <2>5. keyword = Expected(d)
    BY <1>5 DEF Expected, keyword
  <2> QED
    BY <1>1, <1>2, <1>5, <2>1, <2>2, <2>4, <2>5, QueryMoves
<1> QED
  BY <1>1, <1>3, <1>4, <1>5

\* A query goes on without an answer.
LEMMA GoOnKept ==
  ASSUME CategorizationInv, UNCHANGED rest, NEW q \in Requests, query[q].step # "none",
         NEW step \in {"embed", "upsert"}, NEW c \in Categories \cup {General, Declined},
         NEW failed \in BOOLEAN, GoOn(q, step, c, failed), server = "cached" \/ step = "embed",
         server \in {"cached", "embedding"},
         step = "upsert" => c = Embedding[release][query[q].key] /\ c # Declined,
         server = "cached" /\ ~failed =>
           /\ index[query[q].key] \in {Declined, Embedding[release][query[q].key]}
           /\ seeded /\ query[q].key \in Anchored(release) => query[q].key \in missed
  PROVE  CategorizationInv'
<1> DEFINE x == [query[q] EXCEPT !.step = step, !.cat = c, !.failed = failed]
<1>1. query[q] \in Query /\ query[q].key \in Descriptions /\ server # "down"
  BY QueryShape
<1>2. query' = [query EXCEPT ![q] = x] /\ answers' = answers
  BY <1>1 DEF GoOn, CategorizationInv, CategorizationTypeOK
<1>3. /\ x \in Query /\ x.step = step /\ x.key = query[q].key
      /\ x.cat = c /\ x.failed = failed
  BY <1>1 DEF Query
<1> HIDE DEF x
<1>4. query'[q] = x
  BY <1>2 DEF CategorizationInv, CategorizationTypeOK
<1>5. QueryOK(q)'
  BY <1>3, <1>4 DEF QueryOK, rest
<1>6. General \in Categories \cup {General}
  OBVIOUS
<1> QED
  BY <1>1, <1>2, <1>3, <1>5, <1>6, QueryMoves

LEMMA LookupKept ==
  ASSUME CategorizationInv, NEW q \in Requests, Lookup(q) PROVE CategorizationInv'
<1> DEFINE d == query[q].key
<1>1. query[q].step = "lookup" /\ UNCHANGED rest
  BY DEF Lookup, AtQuery, rest
<1>2. query[q] \in Query /\ d \in Descriptions /\ server = "cached" /\ release \in Releases
  BY <1>1, QueryShape DEF CategorizationInv, QueriesOK, QueryOK
<1>3. index[d] \in Categories \cup {Declined}
  BY <1>2 DEF CategorizationInv, CategorizationTypeOK
<1>4. CASE index[d] # Declined
  <2>1. Chain(release, d, index[d]) = Expected(d)
    BY <1>2, <1>3, <1>4, ChainRange DEF Expected
  <2> QED
    BY <1>1, <1>2, <1>3, <1>4, <2>1, AnsweredKept DEF Lookup
<1>5. CASE index[d] = Declined
  <2>1. seeded /\ d \in Anchored(release) => d \in missed
    BY <1>2, <1>5, AnchorCategoryRange, CategoryNames DEF CategorizationInv, AnchorsInForce
  <2> QED
    BY <1>1, <1>2, <1>3, <1>5, <2>1, GoOnKept DEF Lookup
<1> QED
  BY <1>4, <1>5

LEMMA LookupFailsKept ==
  ASSUME CategorizationInv, NEW q \in Requests, LookupFails(q) PROVE CategorizationInv'
<1>1. query[q].step = "lookup" /\ UNCHANGED rest
  BY DEF LookupFails, AtQuery, rest
<1>2. server = "cached"
  BY <1>1 DEF CategorizationInv, QueriesOK, QueryOK
<1> QED
  BY <1>1, <1>2, GoOnKept DEF LookupFails

LEMMA EmbedKept ==
  ASSUME CategorizationInv, NEW q \in Requests, Embed(q) PROVE CategorizationInv'
<1> DEFINE d == query[q].key
           e == Embedding[release][d]
<1>1. query[q].step = "embed" /\ UNCHANGED rest
  BY DEF Embed, AtQuery, rest
<1>2. /\ query[q] \in Query /\ d \in Descriptions /\ release \in Releases
      /\ server \in {"cached", "embedding"} /\ query[q].failed \in BOOLEAN
  BY <1>1, QueryShape DEF CategorizationInv, QueriesOK, QueryOK, Query
<1>3. e \in Categories \cup {Declined} /\ e # General
  BY <1>2, EmbeddingRange, CategoryNames
<1>4. QueryOK(q)
  BY DEF CategorizationInv, QueriesOK
<1> HIDE DEF e
<1>5. CASE server = "cached" /\ e # Declined
  <2>1. GoOn(q, "upsert", e, query[q].failed)
    BY <1>3, <1>5 DEF Embed, e
  <2> QED
    BY <1>1, <1>2, <1>3, <1>4, <1>5, <2>1, GoOnKept DEF QueryOK, e
<1>6. CASE server = "embedding" \/ e = Declined
  <2>1. Answered(q, e, query[q].failed)
    BY <1>3, <1>6 DEF Embed, e
  <2>2. ~query[q].failed => Chain(release, d, e) = Expected(d)
    BY <1>1, <1>2, <1>4, <1>6 DEF Expected, QueryOK, e
  <2> QED
    BY <1>1, <1>2, <1>3, <2>1, <2>2, AnsweredKept
<1> QED
  BY <1>2, <1>5, <1>6

LEMMA EmbedFailsKept ==
  ASSUME CategorizationInv, NEW q \in Requests, EmbedFails(q) PROVE CategorizationInv'
<1>1. query[q].step = "embed" /\ UNCHANGED rest
  BY DEF EmbedFails, AtQuery, rest
<1> QED
  BY <1>1, AnsweredKept DEF EmbedFails

\* What is known of an answer about to be stored.
LEMMA UpsertFacts ==
  ASSUME CategorizationInv, NEW q \in Requests, query[q].step = "upsert"
  PROVE  /\ query[q] \in Query /\ query[q].key \in Descriptions /\ release \in Releases
         /\ server = "cached" /\ query[q].failed \in BOOLEAN
         /\ query[q].cat = Embedding[release][query[q].key]
         /\ query[q].cat \in Categories
         /\ Chain(release, query[q].key, query[q].cat) = query[q].cat
         /\ ~query[q].failed => Expected(query[q].key) = query[q].cat
<1> DEFINE d == query[q].key
           c == query[q].cat
<1>1. /\ query[q] \in Query /\ d \in Descriptions /\ release \in Releases
      /\ server = "cached" /\ query[q].failed \in BOOLEAN /\ QueryOK(q)
      /\ c = Embedding[release][d] /\ c # Declined
  BY QueryShape DEF CategorizationInv, QueriesOK, QueryOK, Query
<1>2. c \in Categories
  BY <1>1, EmbeddingRange
<1>3. Chain(release, d, c) = c
  BY <1>1, <1>2, ChainRange
<1>4. ~query[q].failed => Expected(d) = c
  BY <1>1, <1>3 DEF Expected, QueryOK
<1> QED
  BY <1>1, <1>2, <1>3, <1>4

LEMMA UpsertFailsKept ==
  ASSUME CategorizationInv, NEW q \in Requests, UpsertFails(q) PROVE CategorizationInv'
<1>1. query[q].step = "upsert" /\ UNCHANGED rest
  BY DEF UpsertFails, AtQuery, rest
<1> QED
  BY <1>1, UpsertFacts, AnsweredKept DEF UpsertFails

LEMMA UpsertKept ==
  ASSUME CategorizationInv, NEW q \in Requests, Upsert(q) PROVE CategorizationInv'
<1> DEFINE d == query[q].key
           c == query[q].cat
           failed == query[q].failed
           x == [query[q] EXCEPT !.step = "answered", !.cat = c, !.failed = failed]
<1>1. /\ query[q].step = "upsert"
      /\ UNCHANGED <<server, release, seeded, ran>>
      /\ index' = [index EXCEPT ![d] = c]
      /\ missed' = IF failed THEN missed \cup {d} ELSE missed
  BY DEF Upsert, AtQuery
<1>2. /\ query[q] \in Query /\ d \in Descriptions /\ release \in Releases
      /\ server = "cached" /\ failed \in BOOLEAN
      /\ c = Embedding[release][d] /\ c \in Categories
      /\ Chain(release, d, c) = c
      /\ ~failed => Expected(d) = c
  BY <1>1, UpsertFacts
<1>3. query' = [query EXCEPT ![q] = x]
  BY <1>2 DEF Upsert, Answered, CategorizationInv, CategorizationTypeOK
<1>4. answers' = IF failed THEN answers ELSE [answers EXCEPT ![d] = @ \cup {c}]
  BY <1>2 DEF Upsert, Answered
<1>5. x \in Query /\ x.step = "answered"
  BY <1>2 DEF Query
<1> HIDE DEF x
<1>6. query' \in [Requests -> Query \cup {NoQuery}] /\ query'[q] = x
  BY <1>3, <1>5 DEF CategorizationInv, CategorizationTypeOK
<1>7. CategorizationTypeOK'
  BY <1>1, <1>2, <1>4, <1>6 DEF CategorizationInv, CategorizationTypeOK
<1>8. ASSUME NEW p \in Requests PROVE QueryOK(p)'
  <2>1. CASE p = q
    BY <1>5, <1>6, <2>1 DEF QueryOK
  <2>2. CASE p # q
    <3>1. query'[p] = query[p] /\ QueryOK(p)
      BY <1>3, <2>2 DEF CategorizationInv, CategorizationTypeOK, QueriesOK
    <3>2. query[p].step \in {"embed", "upsert"} => query[p].key \in Descriptions
      BY QueryShape
    <3>3. query[p].key \in Descriptions /\ index[query[p].key] \in {Declined, Embedding[release][query[p].key]}
            => index'[query[p].key] \in {Declined, Embedding[release][query[p].key]}
      BY <1>1, <1>2 DEF CategorizationInv, CategorizationTypeOK
    <3> QED
      BY <1>1, <3>1, <3>2, <3>3 DEF QueryOK
  <2> QED
    BY <2>1, <2>2
<1>9. ServerOK'
  BY <1>1, <1>2 DEF CategorizationInv, ServerOK
<1>10. ASSUME NEW k \in Descriptions, k \notin missed' PROVE answers'[k] \subseteq {Expected(k)'}
  <2>1. k \notin missed /\ answers[k] \subseteq {Expected(k)}
    BY <1>1, <1>2, <1>10 DEF CategorizationInv, AnswersExpected
  <2>2. CASE k = d
    <3>1. ~failed /\ answers'[k] = answers[k] \cup {c} /\ Expected(k) = c
      BY <1>1, <1>2, <1>4, <1>10, <2>2 DEF CategorizationInv, CategorizationTypeOK
    <3>2. index'[k] = c /\ c # Declined
      BY <1>1, <1>2, <2>2, CategoryNames DEF CategorizationInv, CategorizationTypeOK
    <3>3. Expected(k)' = c
      BY <1>1, <1>2, <3>2 DEF Expected
    <3> QED
      BY <2>1, <3>1, <3>3
  <2>3. CASE k # d
    <3>1. index'[k] = index[k] /\ answers'[k] = answers[k]
      BY <1>1, <1>4, <2>3 DEF CategorizationInv, CategorizationTypeOK
    <3>2. Expected(k)' = Expected(k)
      BY <1>1, <3>1 DEF Expected
    <3> QED
      BY <2>1, <3>1, <3>2
  <2> QED
    BY <2>2, <2>3
<1>11. AnchorsInForce'
  <2> SUFFICES ASSUME seeded, NEW k \in Anchored(release) \cap Descriptions, k \notin missed'
               PROVE  index'[k] = AnchorCategory(k)
    BY <1>1 DEF AnchorsInForce
  <2>1. k \notin missed /\ index[k] = AnchorCategory(k)
    BY <1>1, <1>2 DEF CategorizationInv, AnchorsInForce
  <2>2. k # d
    BY <1>1, <1>2, <2>1 DEF CategorizationInv, QueriesOK, QueryOK
  <2> QED
    BY <1>1, <2>1, <2>2 DEF CategorizationInv, CategorizationTypeOK
<1>12. EntriesExplained'
  <2> SUFFICES ASSUME NEW k \in Descriptions, index'[k] # Declined
               PROVE  \E v \in ran : \/ k \in Anchored(v) /\ index'[k] = AnchorCategory(k)
                                     \/ index'[k] = Embedding[v][k]
    BY <1>1 DEF EntriesExplained
  <2>1. CASE k = d
    <3>1. release \in ran /\ index'[d] = c
      BY <1>1, <1>2 DEF CategorizationInv, CategorizationTypeOK, ServerOK
    <3> QED
      BY <1>2, <2>1, <3>1
  <2>2. CASE k # d
    BY <1>1, <2>2 DEF CategorizationInv, CategorizationTypeOK, EntriesExplained
  <2> QED
    BY <2>1, <2>2
<1> QED
  BY <1>7, <1>8, <1>9, <1>10, <1>11, <1>12 DEF CategorizationInv, QueriesOK, AnswersExpected

LEMMA CategorizationStepKept ==
  ASSUME CategorizationInv, NEW q \in Requests, CategorizationStep(q) PROVE CategorizationInv'
  BY LookupKept, LookupFailsKept, EmbedKept, EmbedFailsKept, UpsertKept, UpsertFailsKept
  DEF CategorizationStep

----------------------------------------------------------------------------
\* The server starts and stops.

LEMMA StopKept == ASSUME CategorizationInv, Stop PROVE CategorizationInv'
  BY DEF Stop, CategorizationInv, CategorizationTypeOK, QueriesOK, QueryOK, NoQuery, ServerOK,
         AnswersExpected, AnchorsInForce, EntriesExplained

LEMMA StartKept ==
  ASSUME CategorizationInv, NEW v \in Releases, NEW indexed \in BOOLEAN,
         NEW embedder \in BOOLEAN, NEW stored, Start(v, indexed, embedder, stored)
  PROVE  CategorizationInv'
<1>1. /\ server = "down" /\ release' = v /\ ran' = ran \cup {v} /\ missed' = missed \ stored
      /\ server' = Strategies(indexed, embedder)
      /\ stored \subseteq (IF indexed THEN Anchored(v) \cap Descriptions ELSE {})
      /\ seeded' = (indexed /\ stored = Anchored(v) \cap Descriptions)
      /\ index' = [d \in Descriptions |-> IF d \in stored THEN AnchorCategory(d) ELSE index[d]]
      /\ UNCHANGED <<query, answers>>
  BY DEF Start, Seed
<1>2. server' \in {"keyword", "embedding", "cached"} /\ (server' = "embedding" => ~indexed)
  BY <1>1 DEF Strategies
<1>3. \A d \in stored : d \in Anchored(v) /\ AnchorCategory(d) \in Categories
  BY <1>1, AnchorCategoryRange
<1>4. \A q \in Requests : query'[q] = NoQuery
  BY <1>1 DEF CategorizationInv, CategorizationTypeOK
<1>5. CategorizationTypeOK'
  BY <1>1, <1>2, <1>3 DEF CategorizationInv, CategorizationTypeOK
<1>6. QueriesOK'
  BY <1>4 DEF QueriesOK, QueryOK, NoQuery
<1>7. ServerOK' /\ AnswersExpected'
  BY <1>1, <1>2 DEF CategorizationInv, ServerOK, AnswersExpected
<1>8. AnchorsInForce'
  BY <1>1 DEF AnchorsInForce
<1>9. EntriesExplained'
  BY <1>1, <1>3 DEF CategorizationInv, EntriesExplained
<1> QED
  BY <1>5, <1>6, <1>7, <1>8, <1>9 DEF CategorizationInv

----------------------------------------------------------------------------
\* One answer in a run.

LEMMA OneAnswer == ASSUME CategorizationInv PROVE OneAnswerPerRun
<1> SUFFICES ASSUME NEW d \in Descriptions, d \notin missed
             PROVE  Cardinality(answers[d]) <= 1
  BY DEF OneAnswerPerRun
<1>1. CASE server = "down"
  BY <1>1, FS_EmptySet DEF CategorizationInv, ServerOK
<1>2. CASE server # "down"
  <2>1. answers[d] \subseteq {Expected(d)}
    BY <1>2 DEF CategorizationInv, AnswersExpected
  <2>2. IsFiniteSet({Expected(d)}) /\ Cardinality({Expected(d)}) = 1
    BY FS_Singleton
  <2> QED
    BY <2>1, <2>2, FS_Subset
<1> QED
  BY <1>1, <1>2
=============================================================================
