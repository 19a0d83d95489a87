\* One stock, two server threads, two processes, one restart of the service.
\* No symmetry: liveness.
SPECIFICATION FairSpec
CONSTANTS
  Stocks = {a}
  Callers = {c1, c2}
  MaxRuns = 2
  MaxCrashes = 1
CHECK_DEADLOCK FALSE
INVARIANTS OneProcessPerLife CompletedMeansDone
PROPERTY JobEnds
