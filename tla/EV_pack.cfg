SPECIFICATION Spec
CONSTANTS
    Workers = {w1}
    Securities <- MCSecurities
    Docs <- MCDocs
    Rows <- MCRows
    Readings <- MCReadings
    Periods = {1, 2}
    MaxDay = 2
    MaxRuns = 2
    MaxCrashes = 1
    MaxOdd = 1
INVARIANTS
    PassMeansCovered
    PackOfInputs
PROPERTY
    StableRepeat
