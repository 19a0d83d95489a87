\* Four batches, two runs of each, one result recorded again.  The bound on the
\* runs stops the controller.
SPECIFICATION RolloutSpec
CONSTANTS
  BatchCount = 4
  MaxAttempts = 2
  MaxDuplicates = 1
CHECK_DEADLOCK FALSE
INVARIANTS GatesHeld ReadyMeansAll TwoAtATime NeverStalls
