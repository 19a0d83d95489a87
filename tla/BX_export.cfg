SPECIFICATION Spec
CONSTANTS
  Stocks = {1, 2}
  Packages <- MCPackages
  Sources <- MCSources
  Batch = 1
  Cutoff = 5
  Workers = 1
  MaxAttempts = 1
  MaxRuns = 3
  MaxMoves = 1
  MaxCrashes = 1
INVARIANTS SuccessIsExported PassIsFinal PointInTime
CHECK_DEADLOCK FALSE
