SPECIFICATION FairKioskSpec
CONSTANTS
  hades = hades
  thread1 = thread1
  thread2 = thread2
  None = None
  User = {"ann"}
  Run = {1, 2, 3}
  Cycle = {"c1", "c2"}
  Title = {hades}
  Games <- MCGames
  MaxRemovals = 1
  MaxRetries = 0
  Written = {"scheduled", "queued", "running", "deferred",
             "succeeded", "failed", "manual_required"}
  Reported = {"claimed"}
  Thread = {thread1}
  MaxDeposits = 1
  FaultLimit <- OneCrash
PROPERTIES
  ScheduledRunsComeBack
  ScheduledRunsMoveOn
CHECK_DEADLOCK FALSE
