SPECIFICATION KioskSpec
CONSTANTS
  hades = hades
  thread1 = thread1
  thread2 = thread2
  None = None
  User = {"ann"}
  Run = {1, 2, 3}
  Cycle = {"c1"}
  Title = {hades}
  Games <- MCGames
  MaxRemovals = 1
  MaxRetries = 0
  Written = {"scheduled", "queued", "running", "deferred",
             "succeeded", "failed", "manual_required"}
  Reported = {"claimed", "failed"}
  Thread = {thread1, thread2}
  MaxDeposits = 2
  FaultLimit <- OneDeletion
SYMMETRY Threads
INVARIANTS
  DeletionIsFinal
CHECK_DEADLOCK FALSE
