------------------------------ MODULE Chunking ------------------------------
(* How one review becomes chunks (services/chunking.py, services/text.py). *)
(* A review is its words in order; punctuation is the set of words after    *)
(* which the sentence pattern matches, blank lines the set of words after   *)
(* which a paragraph ends. The embedding model is external: any distance    *)
(* between neighbouring sentences may come out of it, and it may return the *)
(* wrong number of vectors.                                                 *)
EXTENDS Integers, Sequences, SequencesExt, FiniteSetsExt

CONSTANTS
  MinWords,      \* SEMANTIC_MIN_CHUNK_WORDS
  MaxWords,      \* SEMANTIC_MAX_CHUNK_WORDS
  Percentile,    \* SEMANTIC_BREAKPOINT_PERCENTILE
  Reviews,       \* the reviews to chunk: records [words, ends, breaks]
  MaxDistance    \* cosine distances are levels 0..MaxDistance

\* The settings core/config.py refuses to start without.
ChunkSettings ==
  /\ MinWords \in Nat /\ MaxWords \in Nat /\ MinWords < MaxWords /\ MaxDistance \in Nat
  /\ \A r \in Reviews : r.words \in Nat

VARIABLES
  review,        \* the review being chunked
  sentences,     \* its sentences, each a sequence of words
  distances,     \* distances[i]: the gap between sentences i and i+1
  groups,        \* runs of sentence numbers, in order
  stage,         \* what semantic_chunks() does next
  chunks         \* the result, each chunk a sequence of words

vars == <<review, sentences, distances, groups, stage, chunks>>

Distances == 0..MaxDistance

-----------------------------------------------------------------------------
(* Sentences.                                                              *)

\* re.split at the given boundaries: the runs of words between them.
SplitAfter(words, boundary) ==
  LET Add(runs, w) == IF runs # <<>> /\ Last(Last(runs)) \notin boundary
                        THEN Front(runs) \o << Append(Last(runs), w) >>
                        ELSE Append(runs, <<w>>)
  IN  FoldLeft(Add, << >>, words)

\* Mutant: the last words of an over-long sentence are lost.
LoseTheTail(sentence) ==
  [k \in 1..(Len(sentence) \div MaxWords) |->
     SubSeq(sentence, (k - 1) * MaxWords + 1, k * MaxWords)]

\* A sentence longer than a chunk is cut every MaxWords words.
HardSplit(sentence) ==
  [k \in 1..((Len(sentence) + MaxWords - 1) \div MaxWords) |->
     SubSeq(sentence, (k - 1) * MaxWords + 1, Min({k * MaxWords, Len(sentence)}))]

\* _split_long_paragraph: whole sentences packed into pieces of at most
\* MaxWords words.
SplitLongParagraph(paragraph, ends) ==
  LET Flush(p) == IF p.buffer = <<>> THEN p.pieces ELSE Append(p.pieces, p.buffer)
      Take(p, s) ==
        IF Len(s) > MaxWords THEN [pieces |-> Flush(p) \o HardSplit(s), buffer |-> <<>>]
        ELSE IF Len(p.buffer) + Len(s) > MaxWords
          THEN [pieces |-> Flush(p), buffer |-> s]
          ELSE [p EXCEPT !.buffer = @ \o s]
  IN  Flush(FoldLeft(Take, [pieces |-> <<>>, buffer |-> <<>>],
                     SplitAfter(paragraph, ends)))

\* sentences_with_pages on the review's single page: every piece of every
\* paragraph, split into sentences again.
SentencesOf(r) ==
  LET Words == [i \in 1..r.words |-> i]
      paragraphs == SplitAfter(Words, r.breaks)
      pieces == FlattenSeq([i \in DOMAIN paragraphs |-> SplitLongParagraph(paragraphs[i], r.ends)])
  IN  FlattenSeq([i \in DOMAIN pieces |-> SplitAfter(pieces[i], r.ends)])

-----------------------------------------------------------------------------
(* Groups: runs of neighbouring sentences.                                 *)

TextOf(group) == FlattenSeq([i \in DOMAIN group |-> sentences[group[i]]])
WordsOf(group) == Len(TextOf(group))

\* _percentile, times 100: the sorted distances, interpolated linearly.
Threshold(d) ==
  LET ordered == SortSeq(d, <)
      rank == Percentile * (Len(d) - 1)
      low == rank \div 100
      high == Min({low + 1, Len(d) - 1})
  IN  100 * ordered[low + 1]
        + (ordered[high + 1] - ordered[low + 1]) * (rank - 100 * low)

\* A cut where the distance is strictly above the percentile.
TopicBoundaries(d) == {i \in DOMAIN d : 100 * d[i] > Threshold(d)}

\* _pack_sentences: the fallback when the vectors do not match the sentences.
PackSentences(list) ==
  LET Add(p, s) == IF p # <<>> /\ Len(Last(p)) + Len(s) <= MaxWords
                     THEN Front(p) \o << Last(p) \o s >> ELSE Append(p, s)
  IN  FoldLeft(Add, <<>>, list)

\* max over (distance, sentence): the weakest seam inside a group.
WeakestSeam(group) ==
  LET seams == {i \in ToSet(group) : i # Last(group)}
      worst == Max({distances[i] : i \in seams})
  IN  Max({i \in seams : distances[i] = worst})

Oversized(group) == WordsOf(group) > MaxWords /\ Len(group) >= 2

\* The places where _merge_undersized may join group p to a neighbour: the
\* number of the left one, and the gap across the seam.
MergeOptions(p) ==
  {[gap |-> distances[Last(groups[left])], left |-> left] :
     left \in {l \in {p - 1, p} \cap (1..(Len(groups) - 1)) :
                 WordsOf(groups[l]) + WordsOf(groups[l + 1]) <= MaxWords}}

\* min over the gap alone: the group before wins a tie.
BestOption(p) ==
  LET least == Min({o.gap : o \in MergeOptions(p)})
  IN  Min({o.left : o \in {o \in MergeOptions(p) : o.gap = least}})

\* Mutant: only the group before is considered.
OnlyBackwards == {p \in DOMAIN groups : p > 1 /\ WordsOf(groups[p]) < MinWords
                                          /\ MergeOptions(p) # {}}

Mergeable == {p \in DOMAIN groups : WordsOf(groups[p]) < MinWords /\ MergeOptions(p) # {}}

Join(left) ==
  SubSeq(groups, 1, left - 1) \o << groups[left] \o groups[left + 1] >>
    \o SubSeq(groups, left + 2, Len(groups))

-----------------------------------------------------------------------------
Init == /\ review \in Reviews
        /\ sentences = <<>> /\ distances = <<>> /\ groups = <<>> /\ chunks = <<>>
        /\ stage = "review"

\* chunk_review: a short review is one chunk and an empty one is none.
ChunkReview ==
  /\ stage = "review"
  /\ IF review.words <= MinWords
       THEN /\ chunks' = IF review.words = 0 THEN <<>> ELSE << [i \in 1..review.words |-> i] >>
            /\ stage' = "done"
            /\ UNCHANGED sentences
       ELSE /\ sentences' = SentencesOf(review)
            /\ IF Len(sentences') = 1
                 THEN chunks' = sentences' /\ stage' = "done"
                 ELSE stage' = "embed" /\ UNCHANGED chunks
  /\ UNCHANGED <<review, distances, groups>>

\* The vectors come back and every distance above the percentile is a cut.
Embed ==
  /\ stage = "embed"
  /\ \E d \in [1..(Len(sentences) - 1) -> Distances] :
       /\ distances' = d
       /\ groups' = SplitAfter([i \in DOMAIN sentences |-> i], TopicBoundaries(d))
  /\ stage' = "split"
  /\ UNCHANGED <<review, sentences, chunks>>

\* The wrong number of vectors: a plain pack by size.
EmbedMismatch ==
  /\ stage = "embed"
  /\ chunks' = PackSentences(sentences)
  /\ stage' = "packed"
  /\ UNCHANGED <<review, sentences, distances, groups>>

\* _split_oversized, one turn of its loop: a group above MaxWords is cut at
\* its weakest seam. The groups stay in order.
SplitOversized ==
  /\ stage = "split"
  /\ \E p \in DOMAIN groups :
       /\ Oversized(groups[p])
       /\ \A q \in 1..(p - 1) : ~Oversized(groups[q])
       /\ LET cut == WeakestSeam(groups[p]) - Head(groups[p]) + 1
              left == SubSeq(groups[p], 1, cut)
              right == SubSeq(groups[p], cut + 1, Len(groups[p]))
          IN  groups' = SubSeq(groups, 1, p - 1) \o <<left, right>>
                          \o SubSeq(groups, p + 1, Len(groups))
  /\ UNCHANGED <<review, sentences, distances, stage, chunks>>

SplitDone ==
  /\ stage = "split"
  /\ \A p \in DOMAIN groups : ~Oversized(groups[p])
  /\ stage' = "merge"
  /\ UNCHANGED <<review, sentences, distances, groups, chunks>>

\* _merge_undersized, one turn: the first undersized group that can be joined
\* to a neighbour is, and the scan restarts.
MergeUndersized ==
  /\ stage = "merge"
  /\ Mergeable # {}
  /\ groups' = Join(BestOption(Min(Mergeable)))
  /\ UNCHANGED <<review, sentences, distances, stage, chunks>>

MergeDone ==
  /\ stage = "merge"
  /\ Mergeable = {}
  /\ chunks' = [p \in DOMAIN groups |-> TextOf(groups[p])]
  /\ stage' = "done"
  /\ UNCHANGED <<review, sentences, distances, groups>>

Next == \/ ChunkReview \/ Embed \/ EmbedMismatch
        \/ SplitOversized \/ SplitDone \/ MergeUndersized \/ MergeDone

Spec == Init /\ [][Next]_vars

-----------------------------------------------------------------------------
\* The variables hold what their comments say.
TypeOK ==
  /\ review \in Reviews
  /\ stage \in {"review", "embed", "split", "merge", "packed", "done"}
  /\ \A s \in ToSet(sentences) \cup ToSet(chunks) : ToSet(s) \subseteq 1..review.words
  /\ ToSet(distances) \subseteq Distances
  /\ \A g \in ToSet(groups) : ToSet(g) \subseteq DOMAIN sentences

\* Whatever the punctuation and whatever the model answers, the chunks are
\* the review: every word once, in order, and no chunk above MaxWords, which
\* the embedding model would silently truncate.
ChunksKeepTheReview ==
  stage \in {"done", "packed"} =>
    /\ FlattenSeq(chunks) = [i \in 1..review.words |-> i]
    /\ \A c \in ToSet(chunks) : Len(c) \in 1..MaxWords

\* No stray line is left alone: a chunk below MinWords stands alone only when
\* neither neighbour has room for it.
NoStrayLeft ==
  stage = "done" =>
    \A p \in 1..(Len(chunks) - 1) :
      Len(chunks[p]) < MinWords \/ Len(chunks[p + 1]) < MinWords
        => Len(chunks[p]) + Len(chunks[p + 1]) > MaxWords

=============================================================================
