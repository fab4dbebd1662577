CONSTANTS
  Executions = {e1, e2}
  Adapter = "spawn"
  AwaitingInputCount = 0
  MaxCrashes = 2
SPECIFICATION FairSpec
CHECK_DEADLOCK FALSE
INVARIANTS VerdictMatchesAttempt SingleAttempt CancelReachesChild AbortedIffSignalled LogIsHistory ValidatesCleanExits
PROPERTIES PromiseKept AttemptDecided AttemptClosed
