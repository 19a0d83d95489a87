\* Two stocks that queue for one worker, both attempts, a killed process, any
\* number of resumed runs.  No symmetry: liveness.
SPECIFICATION FairSpec
CONSTANTS
  Stocks = {a, b}
  Workers = 1
  MaxAttempts = 2
  MaxCrashes = 1
INVARIANTS TypeOK ReportsNotAhead ExitTruthful
PROPERTIES SettledStays ImplementsLedger RunEnds
