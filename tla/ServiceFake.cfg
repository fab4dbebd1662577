CONSTANTS
  Executions = {e1, e2}
  Adapter = "fake"
  AwaitingInputCount = 2
  MaxCrashes = 2
SPECIFICATION FairSpec
CHECK_DEADLOCK FALSE
INVARIANTS InputWaitAnswerable
PROPERTIES AttemptDecided
