SPECIFICATION FairKioskSpec
CONSTANTS
  hades = hades
  thread1 = thread1
  thread2 = thread2
  None = None
  User = {"ann"}
  Run = {1, 2}
  Cycle = {"c1"}
  Title = {hades}
  Games <- MCGames
  MaxRemovals = 1
  MaxRetries = 2
  Written = {"scheduled", "queued", "running", "deferred",
             "succeeded", "failed", "manual_required"}
  Reported = {"claimed", "failed"}
  Thread = {thread1}
  MaxDeposits = 1
  FaultLimit <- Expiries
PROPERTIES
  RunsEnd
  LocksAreReleased
CHECK_DEADLOCK FALSE
