----------------------------- MODULE MCRetrieval -----------------------------
(* Three components of retrieval that share no state, checked side by side: *)
(* a behaviour picks one and the others stay where they start.              *)
EXTENDS Loaders

CONSTANTS
  Parts, t1, t2, t3,
  MinWords, MaxWords, Percentile, Reviews, MaxDistance,         \* Chunking
  Index, Queries, Candidates, RrfK, Similarities, MinSimilarity, \* ReviewSearch
  Scores, MinRerankScore, Radius, MaxResults, ExcerptChars, ContextChars, TextChars

VARIABLES
  part,
  review, sentences, distances, groups, stage, chunks,
  query, phase, dense, keyword, candidates, selected, expanded, results

chunkVars == <<review, sentences, distances, groups, stage, chunks>>
searchVars == <<query, phase, dense, keyword, candidates, selected, expanded, results>>

-----------------------------------------------------------------------------
(* Chunking: every punctuation of up to seven words, whole or in two       *)
(* paragraphs.                                                             *)

SmallReviews == UNION {[words : {n}, ends : SUBSET (1..(n - 1)),
                        breaks : {{}, {4} \cap (1..(n - 1))}] : n \in 0..7}

C == INSTANCE Chunking

(* ReviewSearch: two customers, one of them reviewing two products.        *)

Chunk(r, p, n) == [review |-> r, product |-> p, number |-> n]
SmallIndex == {Chunk("a", "p", 0), Chunk("a", "p", 1), Chunk("a", "q", 0), Chunk("b", "p", 0)}
SmallQueries == {[products |-> {}, limit |-> 2], [products |-> {"p"}, limit |-> 1]}

S == INSTANCE ReviewSearch

ASSUME RetrievalSettings == C!ChunkSettings /\ S!SearchSettings

-----------------------------------------------------------------------------
InitSuite ==
  /\ part \in Parts
  /\ Init /\ (part # "loaders" => manifest)
  /\ C!Init /\ (part # "chunking" => review = CHOOSE r \in Reviews : TRUE)
  /\ S!Init /\ (part # "search" => query = CHOOSE q \in Queries : TRUE)

NextSuite ==
  \/ part = "chunking" /\ C!Next /\ UNCHANGED <<part, vars, searchVars>>
  \/ part = "search" /\ S!Next /\ UNCHANGED <<part, vars, chunkVars>>
  \/ part = "loaders" /\ Next /\ UNCHANGED <<part, chunkVars, searchVars>>

SuiteSpec == InitSuite /\ [][NextSuite]_<<part, vars, chunkVars, searchVars>>

TypesOK == TypeOK /\ C!TypeOK /\ S!TypeOK
ChunksKeepTheReview == C!ChunksKeepTheReview
NoStrayLeft == C!NoStrayLeft
EvidenceIsSound == S!EvidenceIsSound
FusionRespectsAgreement == S!FusionRespectsAgreement

=============================================================================
