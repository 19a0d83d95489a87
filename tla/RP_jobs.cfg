SPECIFICATION Spec
CONSTANTS
  Jobs = {j1, j2}
  Manifest <- MCManifest
  Market = "SSE"
  Website = TRUE
  Answers <- MCAnswers
  MaxDocs = 3
  MaxSeconds = 1
  MaxCrashes = 1
INVARIANT PacksInOrder
PROPERTY JobEnds
CHECK_DEADLOCK FALSE
