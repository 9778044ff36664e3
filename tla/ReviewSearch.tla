---------------------------- MODULE ReviewSearch ----------------------------
(* One hybrid search over the review chunks (services/review_search.py, the *)
(* ranking of ml/reranker.py). The vector index, the keyword lookup and the *)
(* cross-encoder are external: any ranking, any score, or a failure. What   *)
(* the code decides is fusion, the relevance floor, which neighbours join   *)
(* the hits and how much of them the model may read.                        *)
EXTENDS Integers, Sequences, SequencesExt, FiniteSetsExt

CONSTANTS
  Index,             \* the chunks in the store: [review, product, number]
  Queries,           \* [products, limit]: no products means no filter
  Candidates,        \* RETRIEVAL_CANDIDATES
  RrfK,              \* RRF_K
  Similarities, MinSimilarity,
  Scores, MinRerankScore,
  Radius,            \* NEIGHBOR_EXPANSION
  MaxResults,        \* REVIEW_MAX_RESULTS_TO_MODEL
  ExcerptChars,      \* REVIEW_EXCERPT_CHARS
  ContextChars,      \* MAX_CONTEXT_CHARS
  TextChars          \* the length of a chunk's text

\* What the settings must be, and what the store guarantees: a chunk is
\* identified by its review, its product and its number in the review.
SearchSettings ==
  /\ {Candidates, RrfK, Radius, MaxResults, ExcerptChars, ContextChars, TextChars} \subseteq Nat
  /\ Candidates > 0 /\ Similarities \cup Scores \subseteq Int
  /\ \A q \in Queries : q.limit \in Nat
  /\ IsFiniteSet(Index) /\ \A c \in Index : c.number \in Nat
  /\ \A a, b \in Index :
       a.review = b.review /\ a.product = b.product /\ a.number = b.number => a = b

VARIABLES
  query, phase,
  dense,             \* the vector hits, best first, each [chunk, similarity]
  keyword,           \* the keyword hits, best first
  candidates,        \* fused, cut to Candidates
  selected,          \* above the floor, at most query.limit
  expanded,          \* selected, then their neighbours
  results            \* what the tool returns: [chunk, chars]

vars == <<query, phase, dense, keyword, candidates, selected, expanded, results>>

ChunksOf(hits) == [i \in DOMAIN hits |-> hits[i].chunk]

\* where_filter
Matches(chunk, q) == q.products = {} \/ chunk.product \in q.products

\* Rankings of at most Candidates different chunks that pass the filter.
Rankings(q) ==
  {r \in SetToAllKPermutations({c \in Index : Matches(c, q)}) : Len(r) <= Candidates}

\* similarity_search_with_score: nearest first.
DenseHits(q) ==
  UNION {{[i \in DOMAIN r |-> [chunk |-> r[i], similarity |-> s[i]]] :
            s \in {s \in [DOMAIN r -> Similarities] :
                     \A i, j \in DOMAIN r : i < j => s[i] >= s[j]}} : r \in Rankings(q)}

\* keyword_candidates: chunks holding a content word, most words covered
\* first; any ranking, and none when the question has no content word, the
\* lookup fails or KEYWORD_SEARCH is off.
KeywordHits(q) == Rankings(q)

\* The elements of a sequence by descending key, ties in their order.
SortDescending(list, Key(_)) ==
  LET order == CHOOSE order \in [DOMAIN list -> DOMAIN list] :
                 \A i, j \in DOMAIN list : i < j =>
                   \/ Key(list[order[i]]) > Key(list[order[j]])
                   \/ Key(list[order[i]]) = Key(list[order[j]]) /\ order[i] < order[j]
  IN  [i \in DOMAIN list |-> list[order[i]]]

\* The elements of a sequence that are in a set.
Kept(list, wanted) ==
  FoldLeft(LAMBDA kept, c : IF c \in wanted THEN Append(kept, c) ELSE kept, <<>>, list)

FirstN(list, n) == SubSeq(list, 1, Min({n, Len(list)}))

\* The rank of a chunk in a list, after everybody when it is not there.
Place(list, chunk) ==
  LET at == SelectInSeq(list, LAMBDA c : c = chunk) IN IF at = 0 THEN Len(list) + 1 ELSE at

\* The elements of both lists, those of the first list first, once each.
Joined(one, two) == one \o Kept(two, ToSet(two) \ ToSet(one))

\* 1 / (RRF_K + rank), scaled to an integer; 0 for a chunk that is not there.
Unit == FoldLeft(LAMBDA p, k : p * (RrfK + k), 1, [k \in 1..Candidates |-> k])
RankScore(list, chunk) ==
  IF chunk \in ToSet(list) THEN Unit \div (RrfK + Place(list, chunk)) ELSE 0

\* Mutant: ranks are added up, not their reciprocals, and the least wins.
FuseByRankSum(one, two) ==
  LET RankIn(list, c) == IF c \in ToSet(list) THEN Place(list, c) ELSE 0
  IN  SortDescending(Joined(one, two), LAMBDA c : -(RankIn(one, c) + RankIn(two, c)))

\* Reciprocal Rank Fusion.
Fuse(one, two) ==
  SortDescending(Joined(one, two), LAMBDA c : RankScore(one, c) + RankScore(two, c))

SimilarityOf(chunk) ==
  IF chunk \in ToSet(ChunksOf(dense))
    THEN dense[Place(ChunksOf(dense), chunk)].similarity ELSE 0

\* Mutant: neighbours are looked up by review alone.
ReviewNeighbours(hit) ==
  {c \in Index : c.review = hit.review
                 /\ c.number \in (hit.number - Radius)..(hit.number + Radius)}

\* Mutant: their ids are made up, not looked up.
NeighboursNamed(hit) ==
  {[hit EXCEPT !.number = n] : n \in (hit.number - Radius)..(hit.number + Radius)}

\* The chunks around a hit, of the same review of the same product.
Neighbours(hit) ==
  {c \in Index : /\ c.review = hit.review /\ c.product = hit.product
                 /\ c.number \in (hit.number - Radius)..(hit.number + Radius)}

\* A set of chunks by their numbers.
InOrder(found) ==
  CHOOSE q \in [1..Cardinality(found) -> found] :
    \A i, j \in 1..Cardinality(found) : i < j => q[i] # q[j] /\ q[i].number <= q[j].number

-----------------------------------------------------------------------------
Init == /\ query \in Queries /\ phase = "retrieve"
        /\ dense = <<>> /\ keyword = <<>> /\ candidates = <<>>
        /\ selected = <<>> /\ expanded = <<>> /\ results = <<>>

\* Both lookups, then fusion; an empty index answers nothing.
Retrieve ==
  /\ phase = "retrieve"
  /\ dense' \in DenseHits(query)
  /\ keyword' \in KeywordHits(query)
  /\ candidates' = FirstN(Fuse(ChunksOf(dense'), keyword'), Candidates)
  /\ phase' = "rank"
  /\ UNCHANGED <<query, selected, expanded, results>>

\* The cross-encoder scores every candidate; the floor and the limit follow.
Rerank ==
  /\ phase = "rank"
  /\ candidates # <<>>
  /\ \E score \in [ToSet(candidates) -> Scores] :
       selected' = FirstN(Kept(SortDescending(candidates, LAMBDA c : score[c]),
                               {c \in ToSet(candidates) : score[c] >= MinRerankScore}),
                          query.limit)
  /\ expanded' = selected'
  /\ phase' = "expand"
  /\ UNCHANGED <<query, dense, keyword, candidates, results>>

\* No cross-encoder: the similarity floor, which a chunk found only by its
\* words never reaches.
SimilarityFloor ==
  /\ phase = "rank"
  /\ selected' = FirstN(Kept(candidates,
                             {c \in ToSet(candidates) : SimilarityOf(c) >= MinSimilarity}),
                        query.limit)
  /\ expanded' = selected'
  /\ phase' = "expand"
  /\ UNCHANGED <<query, dense, keyword, candidates, results>>

\* The neighbours of every hit, appended in the store's order; the lookup of
\* one hit may fail on its own, and is not made at all with a radius of 0.
Expand ==
  /\ phase = "expand"
  /\ \E found \in SUBSET DOMAIN selected :
       LET Add(list, i) ==
             IF i \in found /\ Radius > 0
               THEN Joined(list, InOrder(Neighbours(selected[i]))) ELSE list
       IN  expanded' = FoldLeft(Add, selected, [i \in DOMAIN selected |-> i])
  /\ phase' = "excerpts"
  /\ UNCHANGED <<query, dense, keyword, candidates, selected, results>>

\* Excerpts in that order until the budget or the result limit is spent.
Excerpts ==
  /\ phase = "excerpts"
  /\ LET Add(p, c) ==
           LET chars == Min({TextChars, p.budget, ExcerptChars})
           IN  IF chars = 0 \/ Len(p.read) >= MaxResults THEN p
               ELSE [read |-> Append(p.read, [chunk |-> c, chars |-> chars]),
                     budget |-> p.budget - chars]
     IN  results' = FoldLeft(Add, [read |-> <<>>, budget |-> ContextChars], expanded).read
  /\ phase' = "done"
  /\ UNCHANGED <<query, dense, keyword, candidates, selected, expanded>>

Next == Retrieve \/ Rerank \/ SimilarityFloor \/ Expand \/ Excerpts

Spec == Init /\ [][Next]_vars

-----------------------------------------------------------------------------
\* The variables hold what their comments say.
TypeOK ==
  /\ query \in Queries
  /\ phase \in {"retrieve", "rank", "expand", "excerpts", "done"}
  /\ ToSet(ChunksOf(dense)) \cup ToSet(keyword) \cup ToSet(candidates) \subseteq Index
  /\ ToSet(selected) \cup ToSet(expanded) \cup ToSet(ChunksOf(results)) \subseteq Index

Spent == FoldLeft(LAMBDA sum, r : sum + r.chars, 0, results)

\* What the model reads is evidence: no chunk twice, nothing outside the
\* filter of the question, every chunk a hit above the floor or next to one in
\* the same customer's review of the same product; and it fits the budget.
EvidenceIsSound ==
  phase = "done" =>
    LET read == ChunksOf(results)
    IN  /\ Len(read) <= MaxResults /\ Cardinality(ToSet(read)) = Len(read)
        /\ Spent <= ContextChars
        /\ \A c \in ToSet(read) :
             /\ Matches(c, query)
             /\ \E hit \in ToSet(selected) :
                  /\ c.review = hit.review /\ c.product = hit.product
                  /\ c.number - hit.number \in (-Radius)..Radius

\* Fusion respects agreement: a chunk that no list ranks below another, and
\* some list ranks above it, is never passed over for it.
FusionRespectsAgreement ==
  phase # "retrieve" =>
    \A a, b \in ToSet(ChunksOf(dense)) \cup ToSet(keyword) :
      /\ Place(ChunksOf(dense), a) <= Place(ChunksOf(dense), b)
      /\ Place(keyword, a) <= Place(keyword, b)
      /\ a # b
      => Place(candidates, a) <= Place(candidates, b)

=============================================================================
