\* Chunking, review search and the lazy singletons side by side.
SPECIFICATION SuiteSpec
CONSTANTS
  Parts = {"chunking", "search", "loaders"}
  t1 = t1
  t2 = t2
  t3 = t3
  Threads = {t1, t2, t3}
  RetryAfter = 2
  MaxTime = 4
  None = None
  MinWords = 2
  MaxWords = 4
  Percentile = 70
  Reviews <- SmallReviews
  MaxDistance = 2
  Index <- SmallIndex
  Queries <- SmallQueries
  Candidates = 2
  RrfK = 1
  Similarities = {0, 1}
  MinSimilarity = 1
  Scores = {0, 1, 2}
  MinRerankScore = 1
  Radius = 1
  MaxResults = 3
  ExcerptChars = 2
  ContextChars = 5
  TextChars = 3
INVARIANTS
  TypesOK
  ChunksKeepTheReview
  NoStrayLeft
  EvidenceIsSound
  FusionRespectsAgreement
  LoadsAreRationed
CHECK_DEADLOCK FALSE
