\* A forced rebuild that dies.
SPECIFICATION OperatorSpec
CONSTANTS
  coat = coat
  hat = hat
  long = long
  brief = brief
  spam = spam
  Products = {coat, hat}
  Reviews <- SmallReviews
  ChunksOf <- SmallChunks
  Limits = {2}
  Modes = {"plain", "force"}
  Recovery = FALSE
  FlushEvery = 2
  AddBatch = 2
  MaxHash = 1
  MaxCrashes = 1
INVARIANTS
  ManifestTruthful
