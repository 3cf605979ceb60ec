SPECIFICATION FairRunTaskSpec
CONSTANTS
  hades = hades
  control = control
  Title = {hades}
  LoginError <- SomeLoginError
  ClaimError <- SomeClaimError
  PipeSize = 1
  HardTimeouts = 1
  LostReports = 1
  None = None
INVARIANTS
  FatalIsFinal
PROPERTIES
  RunEnds
  RetriesArePaidFor
CHECK_DEADLOCK FALSE
