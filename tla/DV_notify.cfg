SPECIFICATION Spec
CONSTANTS
  Tasks = {"v1", "v2"}
  Branches = {"main"}
  Trees <- MCTrees
  Failures <- MCFailures
  MaxPushes = 2
  MaxRuns = 2
  MaxReruns = 1
INVARIANTS TypeOK OneRequest CompletionEarned ReceiptTrue
PROPERTY FailureAnswered
CHECK_DEADLOCK FALSE
