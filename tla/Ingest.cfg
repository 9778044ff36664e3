\* Plain runs that die twice and the recovery script; forced runs that die once.
SPECIFICATION OperatorSpec
CONSTANTS
  coat = coat
  hat = hat
  long = long
  brief = brief
  spam = spam
  Products = {coat, hat}
  Reviews <- SmallReviews
  ChunksOf <- SmallChunks
  Limits = {1, 2}
  Modes = {"plain", "force"}
  Recovery = TRUE
  FlushEvery = 2
  AddBatch = 2
  MaxHash = 2
  MaxCrashes = 2
INVARIANTS
  TypeOK
  CarefulManifestTruthful
  IdsAreFresh
PROPERTIES
  OnlyChangedTouched
  CompleteRunCovers
  FreshRunIsTruthful
