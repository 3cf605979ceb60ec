\* Two egresses and a budget of one restart per round; two profiles.
SPECIFICATION Spec
CONSTANTS
  WarpCount = 2
  Failures = 2
  RoundBudget = 1
  Cooldown = 2
  CrashLimit = 1
  ExitCount = 2
  Checks = 3
  ControlTries = 2
  Fallbacks = 1
  Retries = 2
  Profile = {p, q}
INVARIANTS
  RecycleSparesRuns
  ContainerSpared
PROPERTIES
  ProbeNeedsRow
  RestartsApart
  DownIsRestarted
  ChecksEnd
  SweepSparesProfiles
  LeftoversGo
CHECK_DEADLOCK FALSE
